---- MODULE Spec2Model ----
(***************************************************************************)
(* TimeBlock: Month/Day/Hour view navigation, the note/task drag-and-drop  *)
(* handlers and the two entity stores (Express MemStorage and the          *)
(* localStorage fallback), modelled from the TypeScript sources.           *)
(*                                                                         *)
(* A JavaScript Date is its epoch time in minutes (UTC); the local offset  *)
(* of the client is tzOffset minutes east of UTC and is fixed for a run    *)
(* (no daylight-saving change inside the modelled days).  A string is a    *)
(* sequence of one-character strings, so that padStart, template literals  *)
(* and toISOString().split("T")[0] are computed, not assumed.              *)
(***************************************************************************)
EXTENDS Integers, Sequences, FiniteSets, TLC

VARIABLES
  tzOffset,      \* client timezone, minutes east of UTC
  apiUp,         \* whether fetch reaches the Express server (else it rejects)
  currentDate,   \* App: currentDate (the month shown in Month view)
  selectedDate,  \* App: selectedDate, or Null
  selectedHour,  \* App: selectedHour, or Null
  viewMode,      \* App: "month" | "day" | "hour"
  dvCurrentDate, \* DayView: currentDate of the DayView mounted last, or Null
  hvCurrentHour, \* HourView: currentHour (state of the mounted HourView), or Null
  draggedTask,   \* DayView / HourView: draggedTask (state of the mounted view)
  draggedNote,   \* useDragDrop of NotesDrawer: draggedNote
  dropZones,     \* useDragDrop of NotesDrawer: dropZones
  highlighted,   \* the elements carrying the class drop-zone-highlight
  drag,          \* the browser's drag operation: "none" | "note" | "task" | "foreign"
  dataTransfer,  \* event.dataTransfer of the drag operation
  overZone,      \* the drop zone under the pointer, or NoZone
  dropDone,      \* the drop event of the drag operation was dispatched
  serverNotes,   \* MemStorage.notes, in insertion order
  serverTasks,   \* MemStorage.tasks, in insertion order
  localNotes,    \* localStorage timeBlocker_notes
  localTasks,    \* localStorage timeBlocker_tasks
  uuidSeq,       \* number of randomUUID() results handed out
  clock,         \* Date.now()
  inflight,      \* the mutations issued and not yet settled
  nIssued,       \* number of notes (in the ids section: entities) submitted for creation
  nDrops,        \* number of drop events dispatched
  lastDrop,      \* what the latest drop event did (observation, not program state)
  lastOp,        \* the latest store request and its outcome (observation)
  walkthroughDone,     \* localStorage timeblock_walkthrough_done is set
  isWalkthroughActive, \* useWalkthrough: isWalkthroughActive of the mounted App
  appOpen,       \* the App page is mounted (the location is /app)
  nOpens,        \* number of times the App page was mounted
  timers,        \* pending auto-launch timeouts: the mount that started each
  currentStep,   \* Walkthrough: currentStep
  nAutoLaunches, \* number of times a timeout activated the walkthrough (observation)
  outcomes,      \* what the settled client mutations reported (observation)
  drawerHeight,  \* NotesDrawer: drawerHeight, in hundredths of the window height
  isDragging,    \* NotesDrawer: isDragging (the resize handle is held)
  dragStartY,    \* NotesDrawer: dragStartY, in hundredths of the window height
  dragStartHeight, \* NotesDrawer: dragStartHeight
  notesData,     \* the data of the query ["/api/notes"]
  tasksData,     \* the data of the mounted view's query ["/api/tasks", ...]
  invalidated    \* the queries invalidated and not yet fetched again

walkVars == <<walkthroughDone, isWalkthroughActive, appOpen, nOpens, timers, currentStep,
              nAutoLaunches>>
appVars == <<currentDate, selectedDate, selectedHour, viewMode, dvCurrentDate, hvCurrentHour>>
dragVars == <<draggedTask, draggedNote, dropZones, highlighted, drag, dataTransfer,
              overZone, dropDone>>
storeVars == <<serverNotes, serverTasks, localNotes, localTasks, uuidSeq, clock>>
envVars == <<tzOffset, apiUp>>
drawerVars == <<drawerHeight, isDragging, dragStartY, dragStartHeight>>
queryVars == <<notesData, tasksData, invalidated>>

vars == <<envVars, appVars, dragVars, storeVars, inflight, nIssued, nDrops, lastDrop,
          lastOp, walkVars, drawerVars, queryVars, outcomes>>

\* null of a Date | null or number | null state.
Null == 0 - 1

\* ---------------------------------------------------------------- bounds
MaxCell == 2    \* Month-view cells the user clicks or drops on: grid cells 1..MaxCell
MaxPage == 1    \* previous/next-day pagings away from the day that was opened

\* Offsets of the modelled clients: UTC-5 and UTC+2.
TzOffsets == {0 - 300, 120}

MinutesPerDay == 1440

\* Date.now() between two settlements: the milliseconds that pass.
Ticks == {1}

\* ---------------------------------------------------------------- strings
DigitChars == <<"0", "1", "2", "3", "4", "5", "6", "7", "8", "9">>

\* Number.prototype.toString() of a non-negative integer.
RECURSIVE toString(_)
toString(n) ==
  IF n < 10 THEN <<DigitChars[n + 1]>>
  ELSE toString(n \div 10) \o <<DigitChars[(n % 10) + 1]>>

\* String.prototype.padStart(len, '0').
RECURSIVE PadStart(_, _)
PadStart(s, len) == IF Len(s) >= len THEN s ELSE PadStart(<<"0">> \o s, len)

\* ---------------------------------------------------------------- Date
\* Days since 1970-01-01 of a proleptic Gregorian date (month 1..12).
DaysFromCivil(y, m, d) ==
  LET yy  == IF m <= 2 THEN y - 1 ELSE y
      era == yy \div 400
      yoe == yy - era * 400
      mp  == IF m > 2 THEN m - 3 ELSE m + 9
      doy == (153 * mp + 2) \div 5 + d - 1
      doe == yoe * 365 + yoe \div 4 - yoe \div 100 + doy
  IN  era * 146097 + doe - 719468

\* <<year, month 1..12, day>> of a day number.
CivilFromDays(z0) ==
  LET z   == z0 + 719468
      era == z \div 146097
      doe == z - era * 146097
      yoe == (doe - doe \div 1460 + doe \div 36524 - doe \div 146096) \div 365
      doy == doe - (365 * yoe + yoe \div 4 - yoe \div 100)
      mp  == (5 * doy + 2) \div 153
      d   == doy - (153 * mp + 2) \div 5 + 1
      m   == IF mp < 10 THEN mp + 3 ELSE mp - 9
      y   == yoe + era * 400
  IN  <<IF m <= 2 THEN y + 1 ELSE y, m, d>>

UTCDay(t) == t \div MinutesPerDay
LocalDay(t) == (t + tzOffset) \div MinutesPerDay
LocalMinutes(t) == (t + tzOffset) % MinutesPerDay

\* getFullYear / getMonth (0..11) / getDate / getDay (0 = Sunday): local fields.
getFullYear(t) == CivilFromDays(LocalDay(t))[1]
getMonth(t) == CivilFromDays(LocalDay(t))[2] - 1
getDate(t) == CivilFromDays(LocalDay(t))[3]
getDay(t) == (LocalDay(t) + 4) % 7

\* new Date(year, month, day): local midnight; month is 0-based.
NewDate(y, m0, d) == DaysFromCivil(y, m0 + 1, d) * MinutesPerDay - tzOffset

\* date.setDate(date.getDate() + k): same local time of day, k local days on.
AddDays(t, k) == t + k * MinutesPerDay

\* "YYYY-MM-DD" of <<y, m, d>>.
IsoDate(c) ==
  PadStart(toString(c[1]), 4) \o <<"-">> \o PadStart(toString(c[2]), 2)
    \o <<"-">> \o PadStart(toString(c[3]), 2)

\* date.toISOString().split("T")[0]: the calendar day of the instant in UTC.
formatDateString(t) == IsoDate(CivilFromDays(UTCDay(t)))

\* The calendar day the client shows for the instant (local fields).
LocalDateKey(t) == IsoDate(CivilFromDays(LocalDay(t)))

\* A grid that starts on the Sunday on or before the first of the month.
getDaysInMonthSundayFirst(t) ==
  LET firstDay  == NewDate(getFullYear(t), getMonth(t), 1)
      startDate == AddDays(firstDay, 0 - getDay(firstDay))
  IN  [i \in 1..42 |-> AddDays(startDate, i - 1)]

\* getDaysInMonth(date)[i], i in 1..42: the Monday-first grid of date's month.
getDaysInMonth(t) ==
  LET firstDay       == NewDate(getFullYear(t), getMonth(t), 1)
      dayOfWeek      == getDay(firstDay)
      daysToSubtract == IF dayOfWeek = 0 THEN 6 ELSE dayOfWeek - 1
      startDate      == AddDays(firstDay, 0 - daysToSubtract)
  IN  [i \in 1..42 |-> AddDays(startDate, i - 1)]

getHoursArray == 0..23

\* The instants at which the app is opened: 2025-01-30 12:00 UTC.
OpenTimes == {DaysFromCivil(2025, 1, 30) * MinutesPerDay + 720}


\* ---------------------------------------------------------------- entities
MaxNotes == 1   \* notes the composer submits over a run

\* null and undefined of a string-valued field; of a number-valued field.
NullStr == <<"null">>
UndefStr == <<"undefined">>
Undef == 0 - 2

\* a || b of JavaScript, for a string-valued and for a number-valued a.
OrStr(a, b) == IF a \in {NullStr, UndefStr, <<>>} THEN b ELSE a
OrNum(a, b) == IF a \in {Null, Undef, 0} THEN b ELSE a
Truthy(a) == a \notin {NullStr, UndefStr, <<>>}

\* req.user.id of mockAuth; userId of the localStorage fallback.
ServerUser == "demo-user-id"
LocalUser == "demo-user"

\* null and undefined of an id-valued field.
NoId == <<"null", 0>>
UndefId == <<"undefined", 0>>

High == <<"h", "i", "g", "h">>
Medium == <<"m", "e", "d", "i", "u", "m">>
Low == <<"l", "o", "w">>
NoNote ==
  [id |-> NoId, userId |-> "", title |-> <<>>, description |-> NullStr,
   priority |-> <<>>, completed |-> 0, createdAt |-> Null]
NoTask ==
  [id |-> NoId, userId |-> "", noteId |-> NoId, title |-> <<>>,
   description |-> NullStr, priority |-> <<>>, date |-> <<>>, startTime |-> NullStr,
   duration |-> Null, completed |-> 0, createdAt |-> Null, updatedAt |-> Null]

\* The composer's inputs: newNote.title and newNote.priority.
ComposerTitles == {<<"W", "r">>, <<" ">>}
ComposerPriorities == {High}

\* String.prototype.trim().
RECURSIVE TrimStart(_)
TrimStart(s) == IF s # <<>> /\ Head(s) = " " THEN TrimStart(Tail(s)) ELSE s
RECURSIVE TrimEnd(_)
TrimEnd(s) ==
  IF s # <<>> /\ s[Len(s)] = " " THEN TrimEnd(SubSeq(s, 1, Len(s) - 1)) ELSE s
Trim(s) == TrimEnd(TrimStart(s))

Range(s) == {s[i] : i \in DOMAIN s}
RemoveAt(s, i) == SubSeq(s, 1, i - 1) \o SubSeq(s, i + 1, Len(s))
\* A lookup that settles for the first element when none matches.
FirstIndexUnlessEmpty(s, id) ==
  IF \E i \in DOMAIN s : s[i].id = id
  THEN CHOOSE i \in DOMAIN s : s[i].id = id /\ \A j \in 1..(i - 1) : s[j].id # id
  ELSE IF s = <<>> THEN 0 ELSE 1

\* Array.prototype.findIndex, 1-based; 0 when no element matches.
FindIndexById(s, id) ==
  IF \E i \in DOMAIN s : s[i].id = id
  THEN CHOOSE i \in DOMAIN s : s[i].id = id /\ \A j \in 1..(i - 1) : s[j].id # id
  ELSE 0
\* A delete that removes nothing.
KeepEveryId(s, id) == s

FilterOutId(s, id) == SelectSeq(s, LAMBDA e : e.id # id)

\* MemStorage.createNote(userId, insertNote) at time now with randomUUID() = id.
MemCreateNote(userId, insertNote, id, now) ==
  [id |-> id, userId |-> userId, title |-> insertNote.title,
   description |-> OrStr(insertNote.description, NullStr),
   priority |-> insertNote.priority, completed |-> insertNote.completed,
   createdAt |-> now]

\* MemStorage.createTask(userId, insertTask).
MemCreateTask(userId, insertTask, id, now) ==
  [id |-> id, userId |-> userId,
   noteId |-> IF insertTask.noteId \in {NoId, UndefId} THEN NoId ELSE insertTask.noteId,
   title |-> insertTask.title,
   description |-> OrStr(insertTask.description, NullStr),
   priority |-> insertTask.priority, date |-> insertTask.date,
   startTime |-> OrStr(insertTask.startTime, NullStr),
   duration |-> OrNum(insertTask.duration, Null),
   completed |-> insertTask.completed, createdAt |-> now, updatedAt |-> Null]

\* MemStorage.updateTask(taskId, updates) on the stored task.
MemUpdateTask(task, updates) ==
  [task EXCEPT
     !.noteId = IF updates.noteId # UndefId THEN updates.noteId ELSE @,
     !.title = IF updates.title \notin {NullStr, UndefStr} THEN updates.title ELSE @,
     !.description = IF updates.description # UndefStr THEN updates.description ELSE @,
     !.priority = IF updates.priority \notin {NullStr, UndefStr} THEN updates.priority ELSE @,
     !.date = IF updates.date \notin {NullStr, UndefStr} THEN updates.date ELSE @,
     !.startTime = IF updates.startTime # UndefStr THEN updates.startTime ELSE @,
     !.duration = IF updates.duration # Undef THEN updates.duration ELSE @,
     !.completed = IF updates.completed \notin {Null, Undef} THEN updates.completed ELSE @]

\* MemStorage.updateNote(noteId, updates) on the stored note.
MemUpdateNote(note, updates) ==
  [note EXCEPT
     !.title = IF updates.title \notin {NullStr, UndefStr} THEN updates.title ELSE @,
     !.description = IF updates.description # UndefStr THEN updates.description ELSE @,
     !.priority = IF updates.priority \notin {NullStr, UndefStr} THEN updates.priority ELSE @,
     !.completed = IF updates.completed \notin {Null, Undef} THEN updates.completed ELSE @]

\* mockNotesApi.createNote(note) of the drawer.
MockCreateNote(note, now) ==
  [id |-> <<"ts", now>>, userId |-> LocalUser, title |-> note.title,
   description |-> OrStr(note.description, NullStr),
   priority |-> OrStr(note.priority, Medium),
   completed |-> OrNum(note.completed, 0), createdAt |-> now]

\* mockTasksApi.createTask(task): { id: Date.now().toString(), ...task, userId,
\* createdAt, updatedAt }.
MockCreateTask(task, now) ==
  [id |-> <<"ts", now>>, userId |-> LocalUser, noteId |-> task.noteId,
   title |-> task.title, description |-> task.description,
   priority |-> task.priority, date |-> task.date, startTime |-> task.startTime,
   duration |-> task.duration, completed |-> task.completed,
   createdAt |-> now, updatedAt |-> now]

\* mockTasksApi.updateTask: { ...tasks[taskIndex], ...updates, updatedAt }.
MockUpdateTask(task, updates, now) ==
  [task EXCEPT
     !.noteId = IF updates.noteId # UndefId THEN updates.noteId ELSE @,
     !.title = IF updates.title # UndefStr THEN updates.title ELSE @,
     !.description = IF updates.description # UndefStr THEN updates.description ELSE @,
     !.priority = IF updates.priority # UndefStr THEN updates.priority ELSE @,
     !.date = IF updates.date # UndefStr THEN updates.date ELSE @,
     !.startTime = IF updates.startTime # UndefStr THEN updates.startTime ELSE @,
     !.duration = IF updates.duration # Undef THEN updates.duration ELSE @,
     !.completed = IF updates.completed # Undef THEN updates.completed ELSE @,
     !.updatedAt = now]

\* A partial task (the body of an update): every field absent.
NoUpdates ==
  [noteId |-> UndefId, title |-> UndefStr, description |-> UndefStr,
   priority |-> UndefStr, date |-> UndefStr, startTime |-> UndefStr,
   duration |-> Undef, completed |-> Undef]

\* The routes registerRoutes gives the Express app: <<method, path>>.
Routes ==
  {<<"GET", "/api/notes">>, <<"POST", "/api/notes">>, <<"PATCH", "/api/notes/:id">>,
   <<"DELETE", "/api/notes/:id">>, <<"GET", "/api/tasks">>, <<"POST", "/api/tasks">>,
   <<"PATCH", "/api/tasks/:id">>, <<"DELETE", "/api/tasks/:id">>}

\* insertNoteSchema.parse / insertTaskSchema.parse accept the body.
insertNoteSchemaOk(body) == body.title \notin {NullStr, UndefStr}
insertTaskSchemaOk(body) ==
  /\ body.title \notin {NullStr, UndefStr}
  /\ body.date \notin {NullStr, UndefStr}

\* insertNoteSchema.partial().parse / insertTaskSchema.partial().parse accept
\* the body: a field may be absent, a not-null column may not be null.
insertNoteSchemaPartialOk(body) ==
  body.title # NullStr /\ body.priority # NullStr /\ body.completed # Null
insertTaskSchemaPartialOk(body) ==
  /\ body.title # NullStr /\ body.priority # NullStr
  /\ body.date # NullStr /\ body.completed # Null

\* The collections of the backing the client's queries read.
Notes == IF apiUp THEN SelectSeq(serverNotes, LAMBDA n : n.userId = ServerUser) ELSE localNotes
Tasks == IF apiUp THEN SelectSeq(serverTasks, LAMBDA t : t.userId = ServerUser) ELSE localTasks

\* ---------------------------------------------------------------- queries
\* Character order of the strings that are compared (dates and times).
Alphabet == <<" ", "-", "0", "1", "2", "3", "4", "5", "6", "7", "8", "9", ":">>
CharCode(c) == CHOOSE i \in 1..Len(Alphabet) : Alphabet[i] = c

\* a.localeCompare(b): negative, 0 or positive.
RECURSIVE localeCompare(_, _)
localeCompare(a, b) ==
  IF a = <<>> /\ b = <<>> THEN 0
  ELSE IF a = <<>> THEN 0 - 1
  ELSE IF b = <<>> THEN 1
  ELSE IF CharCode(Head(a)) < CharCode(Head(b)) THEN 0 - 1
  ELSE IF CharCode(Head(a)) > CharCode(Head(b)) THEN 1
  ELSE localeCompare(Tail(a), Tail(b))

\* A comparator that orders by date only.
TaskCompareByDate(a, b) == localeCompare(a.date, b.date)

\* The comparator of MemStorage.getTasks.
TaskCompare(a, b) ==
  IF a.date # b.date THEN localeCompare(a.date, b.date)
  ELSE IF ~Truthy(a.startTime) /\ Truthy(b.startTime) THEN 1
  ELSE IF Truthy(a.startTime) /\ ~Truthy(b.startTime) THEN 0 - 1
  ELSE IF ~Truthy(a.startTime) /\ ~Truthy(b.startTime) THEN 0
  ELSE localeCompare(a.startTime, b.startTime)

\* Array.prototype.sort with TaskCompare (a stable sort).
RECURSIVE SortTasks(_)
SortTasks(s) ==
  IF s = <<>> THEN <<>>
  ELSE LET rest == SortTasks(SubSeq(s, 1, Len(s) - 1))
           x    == s[Len(s)]
           keep == {i \in 0..Len(rest) : \A j \in 1..i : TaskCompare(rest[j], x) <= 0}
           k    == CHOOSE i \in keep : \A j \in keep : j <= i
       IN  SubSeq(rest, 1, k) \o <<x>> \o SubSeq(rest, k + 1, Len(rest))

\* MemStorage.getTasks(userId, date); date = UndefStr when no date is given.
getTasks(userId, date) ==
  SortTasks(SelectSeq(serverTasks,
    LAMBDA t : t.userId = userId /\ (Truthy(date) => t.date = date)))

DigitVal(c) == CHOOSE d \in 0..9 : DigitChars[d + 1] = c
RECURSIVE ParseDigits(_)
ParseDigits(s) ==
  IF s = <<>> THEN 0 ELSE ParseDigits(SubSeq(s, 1, Len(s) - 1)) * 10 + DigitVal(s[Len(s)])

\* A parse that reads the key as local calendar fields: midnight local time.
ParseIsoDateLocal(s) ==
  NewDate(ParseDigits(SubSeq(s, 1, 4)), ParseDigits(SubSeq(s, 6, 7)) - 1,
          ParseDigits(SubSeq(s, 9, 10)))

\* new Date("YYYY-MM-DD"): midnight UTC of that day.
ParseIsoDate(s) ==
  DaysFromCivil(ParseDigits(SubSeq(s, 1, 4)), ParseDigits(SubSeq(s, 6, 7)),
                ParseDigits(SubSeq(s, 9, 10))) * MinutesPerDay

\* The data of the tasks query of DayView and HourView for dateString: the
\* request carries no date, the fallback filters the stored tasks by date.
TasksQuery(dateString) ==
  IF apiUp THEN getTasks(ServerUser, UndefStr)
  ELSE SelectSeq(localTasks,
         LAMBDA t : Truthy(t.date) /\ formatDateString(ParseIsoDate(t.date)) = dateString)

\* A comparator that puts the oldest note first.
NoteCompareOldestFirst(a, b) == a.createdAt - b.createdAt

\* The comparator of MemStorage.getNotes: newest first.
NoteCompare(a, b) == b.createdAt - a.createdAt

\* Array.prototype.sort with NoteCompare (a stable sort).
RECURSIVE SortNotes(_)
SortNotes(s) ==
  IF s = <<>> THEN <<>>
  ELSE LET rest == SortNotes(SubSeq(s, 1, Len(s) - 1))
           x    == s[Len(s)]
           keep == {i \in 0..Len(rest) : \A j \in 1..i : NoteCompare(rest[j], x) <= 0}
           k    == CHOOSE i \in keep : \A j \in keep : j <= i
       IN  SubSeq(rest, 1, k) \o <<x>> \o SubSeq(rest, k + 1, Len(rest))

\* MemStorage.getNotes(userId).
getNotes(userId) == SortNotes(SelectSeq(serverNotes, LAMBDA n : n.userId = userId))

\* The data of the notes query of NotesDrawer: GET /api/notes, else
\* mockNotesApi.getNotes.
DrawerNotes == IF apiUp THEN getNotes(ServerUser) ELSE localNotes

\* `${hour.toString().padStart(2, '0')}:00`
HourTime(hour) == PadStart(toString(hour), 2) \o <<":", "0", "0">>

\* `${currentHour.toString().padStart(2,'0')}:${minutes.toString().padStart(2,'0')}`
QuarterTime(hour, quarterIndex) ==
  PadStart(toString(hour), 2) \o <<":">> \o PadStart(toString(quarterIndex * 15), 2)

\* parseInt(task.startTime.split(':')[0])
StartHour(startTime) == ParseDigits(SubSeq(startTime, 1, 2))

\* The tasks DayView renders as draggable: the unscheduled ones and those of
\* the 24 hour rows.
DayViewTasks ==
  LET tasks == TasksQuery(formatDateString(dvCurrentDate))
  IN  {t \in Range(tasks) :
         ~Truthy(t.startTime) \/ StartHour(t.startTime) \in getHoursArray}

\* DayView.getTasksForHour(hour): the positions, in the tasks query's data,
\* of the scheduled tasks whose start hour is hour.
getTasksForHour(hour) ==
  LET tasks == TasksQuery(formatDateString(dvCurrentDate))
  IN  {i \in DOMAIN tasks :
         Truthy(tasks[i].startTime) /\ StartHour(tasks[i].startTime) = hour}

\* HourView.getTaskForQuarter(quarterIndex): tasks.find(...), or NoTask.
getTaskForQuarter(quarterIndex) ==
  LET tasks == TasksQuery(formatDateString(selectedDate))
      hit   == {i \in DOMAIN tasks : tasks[i].startTime = QuarterTime(hvCurrentHour, quarterIndex)}
  IN  IF hit = {} THEN NoTask
      ELSE tasks[CHOOSE i \in hit : \A j \in hit : i <= j]

HourViewTasks == {getTaskForQuarter(q) : q \in 0..3} \ {NoTask}

\* ---------------------------------------------------------------- drag and drop
MaxHourPage == 1  \* previous/next-hour pagings away from the hour that was opened
MaxDrops == 2     \* drop events over a run
MaxNavPending == 0  \* mutations still in flight when the user navigates

NoZone == <<"none", 0>>

\* The data-drop-zone elements of the mounted view.
DocumentZones ==
  IF viewMode = "month" THEN {<<"day", i>> : i \in 1..42}
  ELSE IF viewMode = "day" THEN {<<"hour", h>> : h \in getHoursArray}
  ELSE {<<"quarter", q>> : q \in 0..3}

\* The hour rows the user clicks and drops on: the two ends of the day, a
\* one-digit and a two-digit hour.
UserHours == {0, 23}

\* The zones the pointer is moved over, the hour rows being those of hours.
PointerZones(hours) ==
  IF viewMode = "month" THEN {<<"day", i>> : i \in 1..MaxCell}
  ELSE IF viewMode = "day" THEN {<<"hour", h>> : h \in hours}
  ELSE {<<"quarter", q>> : q \in 0..3}

\* event.dataTransfer.getData("application/json"): nothing, text that
\* JSON.parse rejects, the text "null", or JSON.stringify(note).
NoData == [tag |-> "none", note |-> NoNote]
MalformedData == [tag |-> "malformed", note |-> NoNote]
NullData == [tag |-> "null", note |-> NoNote]
NoteData(note) == [tag |-> "note", note |-> note]

NoBody == [title |-> UndefStr]
Mutation(op, method, id, body) ==
  [op |-> op, method |-> method, id |-> id, body |-> body, cur |-> TRUE]

NoDrop ==
  [view |-> "none", kind |-> "none", tag |-> "none", zone |-> NoZone,
   note |-> NoNote, task |-> NoTask, date |-> Null, hour |-> Null, quarter |-> Null,
   issued |-> <<>>, toasts |-> <<>>, notesBefore |-> 0, tasksBefore |-> 0,
   pending |-> 0, clean |-> TRUE]

\* No store request observed yet.  For a request: the operation, the backing
\* it ran on, the id and body it carried, whether it repeats the request
\* before it, the outcome (the HTTP status of the route; 200 / 500 for a
\* fallback call that returns / throws), what a delete returned, and the
\* collections <<notes, tasks>> of that backing before it.
NoOp ==
  [op |-> "none", backing |-> "none", id |-> NoId, body |-> NoUpdates, repeat |-> FALSE,
   status |-> 0, deleted |-> FALSE, before |-> <<>>]

\* MonthView.handleNoteDrop(date, note): the mutations it issues.
MonthNoteDrop(date, note) ==
  <<Mutation("createTask", "POST", NoId,
      [noteId |-> note.id, title |-> note.title,
       description |-> OrStr(note.description, UndefStr),
       priority |-> note.priority, date |-> formatDateString(date),
       startTime |-> NullStr, duration |-> Null, completed |-> Undef]),
    Mutation("deleteNote", "DELETE", note.id, NoBody)>>

\* A DayView.handleNoteDrop that files the task under the date prop.
DayNoteDropOnOpenedDay(hour, note) ==
  <<Mutation("createTask", "POST", NoId,
      [noteId |-> note.id, title |-> note.title,
       description |-> OrStr(note.description, <<>>),
       priority |-> OrStr(note.priority, Medium),
       date |-> formatDateString(selectedDate),
       startTime |-> HourTime(hour), duration |-> 60, completed |-> 0]),
    Mutation("deleteNote", "DELETE", note.id, NoBody)>>

\* DayView.handleNoteDrop(hour, note).
DayNoteDrop(hour, note) ==
  <<Mutation("createTask", "POST", NoId,
      [noteId |-> note.id, title |-> note.title,
       description |-> OrStr(note.description, <<>>),
       priority |-> OrStr(note.priority, Medium),
       date |-> formatDateString(dvCurrentDate),
       startTime |-> HourTime(hour), duration |-> 60, completed |-> 0]),
    Mutation("deleteNote", "DELETE", note.id, NoBody)>>

\* A HourView.handleNoteDrop that uses the hour prop.
HourNoteDropOnOpenedHour(quarterIndex, note) ==
  <<Mutation("createTask", "POST", NoId,
      [noteId |-> note.id, title |-> note.title,
       description |-> OrStr(note.description, UndefStr),
       priority |-> note.priority, date |-> formatDateString(selectedDate),
       startTime |-> QuarterTime(selectedHour, quarterIndex), duration |-> 15,
       completed |-> Undef]),
    Mutation("deleteNote", "DELETE", note.id, NoBody)>>

\* HourView.handleNoteDrop(quarterIndex, note).
HourNoteDrop(quarterIndex, note) ==
  <<Mutation("createTask", "POST", NoId,
      [noteId |-> note.id, title |-> note.title,
       description |-> OrStr(note.description, UndefStr),
       priority |-> note.priority, date |-> formatDateString(selectedDate),
       startTime |-> QuarterTime(hvCurrentHour, quarterIndex), duration |-> 15,
       completed |-> Undef]),
    Mutation("deleteNote", "DELETE", note.id, NoBody)>>

\* DayView.handleTaskSchedule(task, hour).
DayTaskSchedule(task, hour) ==
  <<Mutation("updateTask", "PUT", task.id,
      [NoUpdates EXCEPT !.startTime = HourTime(hour),
                        !.duration = OrNum(task.duration, 60)])>>

\* HourView.handleTaskSchedule(task, quarterIndex).
HourTaskSchedule(task, quarterIndex) ==
  <<Mutation("updateTask", "PUT", task.id,
      [NoUpdates EXCEPT !.startTime = QuarterTime(hvCurrentHour, quarterIndex),
                        !.duration = 15])>>

\* useDragDrop.handleDrop(event, onDrop) up to its clean-up: the mutations
\* onDrop issues and the toasts shown.  onDrop(null) throws before it mutates.
handleDrop(dt, muts) ==
  IF dt.tag = "none" THEN [muts |-> <<>>, toasts |-> <<>>]
  ELSE IF dt.tag = "malformed" THEN [muts |-> <<>>, toasts |-> <<"Error">>]
  ELSE IF dt.tag = "null" THEN [muts |-> <<>>, toasts |-> <<"Error">>]
  ELSE [muts |-> muts, toasts |-> <<"Task scheduled", "Task scheduled">>]

\* The hour-row / quarter onDrop dispatches on draggedTask.
DropIsTask == draggedTask # NoTask

Stale(q) == [i \in DOMAIN q |-> [q[i] EXCEPT !.cur = FALSE]]

\* Bookkeeping shared by the three drop actions.
Dropped(r, zone, date, hour, quarter) ==
  /\ inflight' = Stale(inflight) \o r.muts
  /\ lastDrop' =
       [view |-> viewMode, kind |-> drag, tag |-> dataTransfer.tag, zone |-> zone,
        note |-> dataTransfer.note, task |-> draggedTask, date |-> date,
        hour |-> hour, quarter |-> quarter,
        issued |-> [i \in DOMAIN r.muts |-> <<r.muts[i].op, r.muts[i].id>>],
        toasts |-> r.toasts,
        notesBefore |-> Len(Notes), tasksBefore |-> Len(Tasks),
        pending |-> Len(r.muts), clean |-> TRUE]
  /\ dropDone' = TRUE
  /\ overZone' = NoZone
  /\ nDrops' = nDrops + 1
  /\ UNCHANGED <<lastOp, walkVars, drawerVars, queryVars, outcomes, envVars, appVars, storeVars, nIssued, draggedNote, dropZones, drag,
                 dataTransfer>>

\* An onDragStart of a note item that starts the session for a completed
\* note as well.
NoteDragStartAny ==
  \E i \in DOMAIN DrawerNotes :
    LET note == DrawerNotes[i] IN
    /\ drag = "none"
    /\ draggedNote' = note
    /\ dataTransfer' = NoteData(note)
    /\ dropZones' = DocumentZones
    /\ drag' = "note"
    /\ lastDrop' = NoDrop
    /\ nDrops < MaxDrops
    /\ UNCHANGED <<lastOp, walkVars, drawerVars, queryVars, outcomes, envVars, appVars, storeVars, inflight, nIssued, nDrops,
                   draggedTask, highlighted, overZone, dropDone>>

\* NotesDrawer: onDragStart of a note item -> useDragDrop.handleDragStart;
\* the item is draggable, and its handler runs, only when !note.completed.
NoteDragStart ==
  \E i \in DOMAIN DrawerNotes :
    LET note == DrawerNotes[i] IN
    /\ drag = "none"
    /\ note.completed = 0
    /\ draggedNote' = note
    /\ dataTransfer' = NoteData(note)
    /\ dropZones' = DocumentZones
    /\ drag' = "note"
    /\ lastDrop' = NoDrop
    /\ nDrops < MaxDrops
    /\ UNCHANGED <<lastOp, walkVars, drawerVars, queryVars, outcomes, envVars, appVars, storeVars, inflight, nIssued, nDrops,
                   draggedTask, highlighted, overZone, dropDone>>

\* DayView / HourView: onDragStart of a task block -> handleTaskDragStart.
TaskDragStart ==
  \E task \in (IF viewMode = "day" THEN DayViewTasks
               ELSE IF viewMode = "hour" THEN HourViewTasks ELSE {}) :
    /\ drag = "none"
    /\ draggedTask' = task
    /\ dataTransfer' = NoData
    /\ drag' = "task"
    /\ lastDrop' = NoDrop
    /\ nDrops < MaxDrops
    /\ UNCHANGED <<lastOp, walkVars, drawerVars, queryVars, outcomes, envVars, appVars, storeVars, inflight, nIssued, nDrops,
                   draggedNote, dropZones, highlighted, overZone, dropDone>>

\* A drag that starts outside the page (or from an element that is neither a
\* note nor a task) enters it: no dragstart handler of the app runs.
ForeignDragEnter ==
  \E dt \in {NoData, MalformedData, NullData} :
    /\ drag = "none"
    /\ dataTransfer' = dt
    /\ drag' = "foreign"
    /\ lastDrop' = NoDrop
    /\ nDrops < MaxDrops
    /\ UNCHANGED <<lastOp, walkVars, drawerVars, queryVars, outcomes, envVars, appVars, storeVars, inflight, nIssued, nDrops,
                   draggedTask, draggedNote, dropZones, highlighted, overZone, dropDone>>

\* onDragOver of a zone -> useDragDrop.handleDragOver.
DragOverIn(hours) ==
  \E z \in PointerZones(hours) :
    /\ drag # "none" /\ ~dropDone
    /\ overZone \in {NoZone, z}
    /\ highlighted' = highlighted \cup {z}
    /\ overZone' = z
    /\ UNCHANGED <<lastOp, walkVars, drawerVars, queryVars, outcomes, envVars, appVars, storeVars, inflight, nIssued, nDrops, lastDrop,
                   draggedTask, draggedNote, dropZones, drag, dataTransfer, dropDone>>

handleDragOver == DragOverIn(UserHours)

\* onDragLeave of the zone under the pointer -> useDragDrop.handleDragLeave.
handleDragLeave ==
  /\ drag # "none" /\ ~dropDone
  /\ overZone # NoZone
  /\ highlighted' = highlighted \ {overZone}
  /\ overZone' = NoZone
  /\ UNCHANGED <<lastOp, walkVars, drawerVars, queryVars, outcomes, envVars, appVars, storeVars, inflight, nIssued, nDrops, lastDrop,
                 draggedTask, draggedNote, dropZones, drag, dataTransfer, dropDone>>

\* MonthView day cell: onDrop -> handleDrop(e, note => handleNoteDrop(day, note)).
DropOnDayCell ==
  \E i \in 1..MaxCell :
    LET day == getDaysInMonth(currentDate)[i]
        r   == handleDrop(dataTransfer, MonthNoteDrop(day, dataTransfer.note))
    IN  /\ viewMode = "month"
        /\ drag # "none" /\ ~dropDone /\ overZone = <<"day", i>>
        /\ highlighted' = {}
        /\ UNCHANGED draggedTask
        /\ Dropped(r, overZone, day, Null, Null)

\* DayView hour row: onDrop.
DropOnHourRowIn(hours) ==
  \E hour \in hours :
    /\ viewMode = "day"
    /\ drag # "none" /\ ~dropDone /\ overZone = <<"hour", hour>>
    /\ IF DropIsTask
       THEN \* handleTaskDrop(e, hour)
            /\ draggedTask' = NoTask
            /\ UNCHANGED highlighted
            /\ Dropped([muts |-> DayTaskSchedule(draggedTask, hour),
                        toasts |-> <<"Task scheduled">>],
                       overZone, dvCurrentDate, hour, Null)
       ELSE \* handleDrop(e.nativeEvent, note => handleNoteDrop(hour, note))
            /\ highlighted' = {}
            /\ UNCHANGED draggedTask
            /\ Dropped(handleDrop(dataTransfer, DayNoteDrop(hour, dataTransfer.note)),
                       overZone, dvCurrentDate, hour, Null)

DropOnHourRow == DropOnHourRowIn(UserHours)

\* HourView quarter segment: onDrop.
DropOnQuarter ==
  \E q \in 0..3 :
    /\ viewMode = "hour"
    /\ drag # "none" /\ ~dropDone /\ overZone = <<"quarter", q>>
    /\ IF DropIsTask
       THEN /\ draggedTask' = NoTask
            /\ UNCHANGED highlighted
            /\ Dropped([muts |-> HourTaskSchedule(draggedTask, q),
                        toasts |-> <<"Task scheduled">>],
                       overZone, selectedDate, hvCurrentHour, q)
       ELSE /\ highlighted' = {}
            /\ UNCHANGED draggedTask
            /\ Dropped(handleDrop(dataTransfer, HourNoteDrop(q, dataTransfer.note)),
                       overZone, selectedDate, hvCurrentHour, q)

\* dragend at the note item -> useDragDrop.handleDragEnd.  The browser
\* dispatches it after the drop, or after the dragleave of a cancelled drag.
handleDragEnd ==
  /\ drag = "note"
  /\ dropDone \/ overZone = NoZone
  /\ draggedNote' = NoNote
  /\ dropZones' = {}
  /\ highlighted' = {}
  /\ drag' = "none"
  /\ dataTransfer' = NoData
  /\ dropDone' = FALSE
  /\ UNCHANGED <<lastOp, walkVars, drawerVars, queryVars, outcomes, envVars, appVars, storeVars, inflight, nIssued, nDrops, lastDrop,
                 draggedTask, overZone>>

\* A handleTaskDragEnd that leaves draggedTask set.
handleTaskDragEndKeepsTask ==
  /\ drag = "task"
  /\ dropDone \/ overZone = NoZone
  /\ drag' = "none"
  /\ dataTransfer' = NoData
  /\ dropDone' = FALSE
  /\ UNCHANGED <<lastOp, walkVars, drawerVars, queryVars, outcomes, envVars, appVars, storeVars, inflight, nIssued, nDrops, lastDrop,
                 draggedTask, draggedNote, dropZones, highlighted, overZone>>

\* dragend at the task block -> handleTaskDragEnd.
handleTaskDragEnd ==
  /\ drag = "task"
  /\ dropDone \/ overZone = NoZone
  /\ draggedTask' = NoTask
  /\ drag' = "none"
  /\ dataTransfer' = NoData
  /\ dropDone' = FALSE
  /\ UNCHANGED <<lastOp, walkVars, drawerVars, queryVars, outcomes, envVars, appVars, storeVars, inflight, nIssued, nDrops, lastDrop,
                 draggedNote, dropZones, highlighted, overZone>>

\* The foreign drag ends; no handler of the app runs.
ForeignDragEnd ==
  /\ drag = "foreign"
  /\ dropDone \/ overZone = NoZone
  /\ drag' = "none"
  /\ dataTransfer' = NoData
  /\ dropDone' = FALSE
  /\ UNCHANGED <<lastOp, walkVars, drawerVars, queryVars, outcomes, envVars, appVars, storeVars, inflight, nIssued, nDrops, lastDrop,
                 draggedTask, draggedNote, dropZones, highlighted, overZone>>

\* ---------------------------------------------------------------- mutations
\* Math.min(a, b).
Lesser(a, b) == IF a < b THEN a ELSE b

\* A Math.max that returns its first argument: no lower clamp.
GreaterUnclamped(a, b) == a

\* Math.max(a, b).
Greater(a, b) == IF a > b THEN a ELSE b

\* A mutation of the latest drop settles, or one issued before it does.
Settled(m) ==
  lastDrop' =
    IF lastDrop.view = "none" THEN lastDrop
    ELSE IF m.cur THEN [lastDrop EXCEPT !.pending = @ - 1]
    ELSE [lastDrop EXCEPT !.clean = FALSE]

\* NotesDrawer.handleAddNote with the composer holding title and priority,
\* on a run that submits at most max notes.
AddNote(max) ==
  \E title \in ComposerTitles, priority \in ComposerPriorities :
    /\ drag = "none"
    /\ nIssued < max
    /\ IF Trim(title) = <<>>
       THEN UNCHANGED <<inflight, nIssued>>
       ELSE /\ inflight' = Append(inflight,
                 [Mutation("createNote", "POST", NoId,
                    [title |-> Trim(title), description |-> UndefStr,
                     priority |-> priority, completed |-> 0])
                  EXCEPT !.cur = FALSE])
            /\ nIssued' = nIssued + 1
    /\ lastDrop' = NoDrop
    /\ UNCHANGED <<lastOp, walkVars, drawerVars, queryVars, outcomes, envVars, appVars, dragVars, storeVars, nDrops>>

handleAddNote == AddNote(MaxNotes)

\* createNoteMutation.mutationFn settles: POST /api/notes, else mockNotesApi;
\* onSuccess invalidates the notes query and grows a small drawer.
SettleCreateNote ==
  \E i \in DOMAIN inflight, dt \in Ticks :
    LET m == inflight[i] IN
    /\ m.op = "createNote"
    /\ clock' = clock + dt
    /\ IF apiUp /\ <<m.method, "/api/notes">> \in Routes /\ insertNoteSchemaOk(m.body)
       THEN /\ serverNotes' = Append(serverNotes,
                 MemCreateNote(ServerUser, m.body, <<"uuid", uuidSeq + 1>>, clock'))
            /\ uuidSeq' = uuidSeq + 1
            /\ UNCHANGED localNotes
       ELSE /\ localNotes' = Append(localNotes, MockCreateNote(m.body, clock'))
            /\ UNCHANGED <<serverNotes, uuidSeq>>
    /\ inflight' = RemoveAt(inflight, i)
    /\ Settled(m)
    /\ invalidated' = invalidated \cup {"notes"}
    /\ drawerHeight' = IF drawerHeight < 40 THEN Lesser(drawerHeight + 15, 50)
                       ELSE drawerHeight
    /\ UNCHANGED <<isDragging, dragStartY, dragStartHeight, notesData, tasksData>>
    /\ UNCHANGED <<lastOp, walkVars, outcomes, envVars, appVars, dragVars, serverTasks, localTasks, nIssued, nDrops>>

\* A createTaskMutation whose request and fallback both fail: nothing is
\* stored and onSuccess does not run.
SettleCreateTaskFails ==
  \E i \in DOMAIN inflight :
    LET m == inflight[i] IN
    /\ m.op = "createTask"
    /\ inflight' = RemoveAt(inflight, i)
    /\ Settled(m)
    /\ UNCHANGED <<lastOp, walkVars, drawerVars, queryVars, outcomes, envVars, appVars, dragVars,
                   storeVars, nIssued, nDrops>>

\* createTaskMutation.mutationFn settles: POST /api/tasks, else mockTasksApi;
\* onSuccess invalidates the tasks and the notes queries.
SettleCreateTask ==
  \E i \in DOMAIN inflight, dt \in Ticks :
    LET m == inflight[i] IN
    /\ m.op = "createTask"
    /\ clock' = clock + dt
    /\ IF apiUp /\ <<m.method, "/api/tasks">> \in Routes /\ insertTaskSchemaOk(m.body)
       THEN /\ serverTasks' = Append(serverTasks,
                 MemCreateTask(ServerUser, m.body, <<"uuid", uuidSeq + 1>>, clock'))
            /\ uuidSeq' = uuidSeq + 1
            /\ UNCHANGED localTasks
       ELSE /\ localTasks' = Append(localTasks, MockCreateTask(m.body, clock'))
            /\ UNCHANGED <<serverTasks, uuidSeq>>
    /\ inflight' = RemoveAt(inflight, i)
    /\ Settled(m)
    /\ invalidated' = invalidated \cup {"tasks", "notes"}
    /\ UNCHANGED <<drawerVars, notesData, tasksData>>
    /\ UNCHANGED <<lastOp, walkVars, outcomes, envVars, appVars, dragVars, serverNotes, localNotes, nIssued, nDrops>>

\* deleteNoteMutation.mutationFn settles: DELETE /api/notes/:id; when the
\* request fails (fetch rejects, or apiRequest rejects the 404 of an unknown
\* id) mockNotesApi.deleteNote filters the stored notes.
SettleDeleteNote ==
  \E i \in DOMAIN inflight, rejects \in BOOLEAN :
    LET m == inflight[i]
        found == apiUp /\ <<m.method, "/api/notes/:id">> \in Routes
                   /\ FindIndexById(serverNotes, m.id) # 0
    IN
    /\ m.op = "deleteNote"
    /\ found => ~rejects
    /\ (~apiUp) => rejects
    /\ serverNotes' = IF found THEN FilterOutId(serverNotes, m.id) ELSE serverNotes
    /\ localNotes' = IF rejects THEN FilterOutId(localNotes, m.id) ELSE localNotes
    /\ inflight' = RemoveAt(inflight, i)
    /\ Settled(m)
    /\ invalidated' = invalidated \cup {"notes"}
    /\ UNCHANGED <<drawerVars, notesData, tasksData>>
    /\ UNCHANGED <<lastOp, walkVars, outcomes, envVars, appVars, dragVars, serverTasks, localTasks, uuidSeq,
                   clock, nIssued, nDrops>>

\* updateTaskMutation.mutationFn settles: PUT /api/tasks/:id.  A request no
\* route matches does not reach MemStorage; whether apiRequest then rejects
\* (and mockTasksApi.updateTask runs) is left open.  mockTasksApi.updateTask
\* throws when the id is not stored.
SettleUpdateTask ==
  \E i \in DOMAIN inflight, rejects \in BOOLEAN, dt \in Ticks :
    LET m == inflight[i]
        routed == apiUp /\ <<m.method, "/api/tasks/:id">> \in Routes
        si == FindIndexById(serverTasks, m.id)
        li == FindIndexById(localTasks, m.id)
    IN
    /\ m.op = "updateTask"
    /\ (routed /\ si # 0) => ~rejects
    /\ (~apiUp) => rejects
    /\ clock' = clock + dt
    /\ serverTasks' =
         IF routed /\ si # 0
         THEN [serverTasks EXCEPT ![si] = MemUpdateTask(@, m.body)]
         ELSE serverTasks
    /\ localTasks' =
         IF rejects /\ li # 0
         THEN [localTasks EXCEPT ![li] = MockUpdateTask(@, m.body, clock')]
         ELSE localTasks
    /\ inflight' = RemoveAt(inflight, i)
    /\ Settled(m)
    /\ invalidated' = IF (routed /\ si # 0) \/ (rejects /\ li # 0)
                      THEN invalidated \cup {"tasks"} ELSE invalidated
    /\ UNCHANGED <<drawerVars, notesData, tasksData>>
    /\ UNCHANGED <<lastOp, walkVars, outcomes, envVars, appVars, dragVars, serverNotes, localNotes, uuidSeq, nIssued, nDrops>>

\* ---------------------------------------------------------------- App
\* A view that mounts starts with draggedTask = null and with none of its
\* elements highlighted.
MountedWhen(maxPending) ==
  /\ Len(inflight) <= maxPending
  /\ draggedTask' = NoTask
  /\ highlighted' = {}
  /\ UNCHANGED <<draggedNote, dropZones, drag, dataTransfer, overZone, dropDone>>

Mounted == MountedWhen(MaxNavPending)

\* NotesDrawer as it mounts: useState(0.25), useState(false), useState(0),
\* useState(0).
NotesDrawerMounted ==
  /\ drawerHeight = 25
  /\ isDragging = FALSE
  /\ dragStartY = 0
  /\ dragStartHeight = 0

\* The queries of the mounted components have fetched the stored lists.
QueriesFetched ==
  /\ notesData = <<>>
  /\ tasksData = <<>>
  /\ invalidated = {}

\* The App page mounted for the first time on a client whose localStorage has
\* no timeblock_walkthrough_done: useState(false), and the mount effect has
\* started its timeout.
FirstOpen ==
  /\ walkthroughDone = FALSE
  /\ isWalkthroughActive = FALSE
  /\ appOpen = TRUE
  /\ nOpens = 1
  /\ timers = <<1>>
  /\ currentStep = 0
  /\ nAutoLaunches = 0

Init ==
  /\ tzOffset \in TzOffsets
  /\ apiUp \in BOOLEAN
  /\ currentDate \in OpenTimes
  /\ selectedDate = Null
  /\ selectedHour = Null
  /\ viewMode = "month"
  /\ dvCurrentDate = Null
  /\ hvCurrentHour = Null
  /\ draggedTask = NoTask
  /\ draggedNote = NoNote
  /\ dropZones = {}
  /\ highlighted = {}
  /\ drag = "none"
  /\ dataTransfer = NoData
  /\ overZone = NoZone
  /\ dropDone = FALSE
  /\ serverNotes = <<>>
  /\ serverTasks = <<>>
  /\ localNotes = <<>>
  /\ localTasks = <<>>
  /\ uuidSeq = 0
  /\ clock = 0
  /\ inflight = <<>>
  /\ nIssued = 0
  /\ nDrops = 0
  /\ lastDrop = NoDrop
  /\ lastOp = NoOp
  /\ FirstOpen
  /\ outcomes = <<>>
  /\ NotesDrawerMounted
  /\ QueriesFetched

\* A handleDateClick that also moves the visible month to the clicked day.
handleDateClickSetsMonth(date) ==
  /\ viewMode = "month"
  /\ selectedDate' = date
  /\ viewMode' = "day"
  /\ dvCurrentDate' = date
  /\ currentDate' = date
  /\ UNCHANGED <<selectedHour, hvCurrentHour>>

\* App.handleDateClick, from a Month-view cell; DayView mounts with
\* useState(date).
handleDateClick(date) ==
  /\ viewMode = "month"
  /\ selectedDate' = date
  /\ viewMode' = "day"
  /\ dvCurrentDate' = date
  /\ UNCHANGED <<currentDate, selectedHour, hvCurrentHour>>

DateClickWhen(maxPending) ==
  /\ drag = "none"
  /\ \E i \in 1..MaxCell : handleDateClick(getDaysInMonth(currentDate)[i])
  /\ MountedWhen(maxPending)
  /\ lastDrop' = NoDrop
  /\ UNCHANGED <<lastOp, walkVars, drawerVars, queryVars, outcomes, envVars, storeVars, inflight, nIssued, nDrops>>

\* DayView.handlePreviousDay.
handlePreviousDay ==
  /\ drag = "none" /\ Len(inflight) <= MaxNavPending
  /\ viewMode = "day" /\ selectedDate # Null
  /\ LocalDay(selectedDate) - LocalDay(dvCurrentDate) < MaxPage
  /\ dvCurrentDate' = AddDays(dvCurrentDate, 0 - 1)
  /\ lastDrop' = NoDrop
  /\ UNCHANGED <<lastOp, walkVars, drawerVars, queryVars, outcomes, envVars, currentDate, selectedDate, selectedHour, viewMode,
                 hvCurrentHour, dragVars, storeVars, inflight, nIssued, nDrops>>

\* DayView.handleNextDay.
handleNextDay ==
  /\ drag = "none" /\ Len(inflight) <= MaxNavPending
  /\ viewMode = "day" /\ selectedDate # Null
  /\ LocalDay(dvCurrentDate) - LocalDay(selectedDate) < MaxPage
  /\ dvCurrentDate' = AddDays(dvCurrentDate, 1)
  /\ lastDrop' = NoDrop
  /\ UNCHANGED <<lastOp, walkVars, drawerVars, queryVars, outcomes, envVars, currentDate, selectedDate, selectedHour, viewMode,
                 hvCurrentHour, dragVars, storeVars, inflight, nIssued, nDrops>>

DateClick == DateClickWhen(MaxNavPending)

\* App.handleHourClick, from a Day-view hour row: DayView unmounts and HourView
\* mounts with useState(hour).  Nothing reads the unmounted DayView's state;
\* dvCurrentDate keeps the day it showed last until a DayView mounts again.
handleHourClick(hour) ==
  /\ viewMode = "day" /\ selectedDate # Null
  /\ selectedHour' = hour
  /\ viewMode' = "hour"
  /\ hvCurrentHour' = hour
  /\ UNCHANGED <<currentDate, selectedDate, dvCurrentDate>>

HourClickWhen(maxPending) ==
  /\ drag = "none"
  /\ \E h \in UserHours : handleHourClick(h)
  /\ MountedWhen(maxPending)
  /\ lastDrop' = NoDrop
  /\ UNCHANGED <<lastOp, walkVars, drawerVars, queryVars, outcomes, envVars, storeVars, inflight, nIssued, nDrops>>

HourClick == HourClickWhen(MaxNavPending)

\* HourView.handlePreviousHour (the button is disabled at 0).
handlePreviousHour ==
  /\ drag = "none" /\ Len(inflight) <= MaxNavPending
  /\ viewMode = "hour" /\ selectedDate # Null /\ selectedHour # Null
  /\ hvCurrentHour # 0
  /\ selectedHour - hvCurrentHour < MaxHourPage
  /\ hvCurrentHour' = IF hvCurrentHour - 1 > 0 THEN hvCurrentHour - 1 ELSE 0
  /\ lastDrop' = NoDrop
  /\ UNCHANGED <<lastOp, walkVars, drawerVars, queryVars, outcomes, envVars, currentDate, selectedDate, selectedHour, viewMode,
                 dvCurrentDate, dragVars, storeVars, inflight, nIssued, nDrops>>

\* HourView.handleNextHour (the button is disabled at 23).
handleNextHour ==
  /\ drag = "none" /\ Len(inflight) <= MaxNavPending
  /\ viewMode = "hour" /\ selectedDate # Null /\ selectedHour # Null
  /\ hvCurrentHour # 23
  /\ hvCurrentHour - selectedHour < MaxHourPage
  /\ hvCurrentHour' = IF hvCurrentHour + 1 < 23 THEN hvCurrentHour + 1 ELSE 23
  /\ lastDrop' = NoDrop
  /\ UNCHANGED <<lastOp, walkVars, drawerVars, queryVars, outcomes, envVars, currentDate, selectedDate, selectedHour, viewMode,
                 dvCurrentDate, dragVars, storeVars, inflight, nIssued, nDrops>>

\* A handleCloseHourView that leaves selectedHour set.
handleCloseHourViewKeepsHour ==
  /\ drag = "none"
  /\ viewMode = "hour" /\ selectedDate # Null /\ selectedHour # Null
  /\ viewMode' = "day"
  /\ dvCurrentDate' = selectedDate
  /\ Mounted
  /\ lastDrop' = NoDrop
  /\ UNCHANGED <<lastOp, walkVars, drawerVars, queryVars, outcomes, envVars, currentDate, selectedDate, selectedHour, hvCurrentHour,
                 storeVars, inflight, nIssued, nDrops>>

\* App.handleCloseHourView: HourView unmounts, DayView mounts again with
\* useState(date), date being App's selectedDate.
CloseHourView(maxPending) ==
  /\ drag = "none"
  /\ viewMode = "hour" /\ selectedDate # Null /\ selectedHour # Null
  /\ viewMode' = "day"
  /\ selectedHour' = Null
  /\ hvCurrentHour' = Null
  /\ dvCurrentDate' = selectedDate
  /\ MountedWhen(maxPending)
  /\ lastDrop' = NoDrop
  /\ UNCHANGED <<lastOp, walkVars, drawerVars, queryVars, outcomes, envVars, currentDate, selectedDate, storeVars, inflight, nIssued, nDrops>>

handleCloseHourView == CloseHourView(MaxNavPending)

\* A handleCloseDayView that clears the selected day and leaves the view mode.
CloseDayViewKeepsView(maxPending) ==
  /\ drag = "none"
  /\ viewMode = "day" /\ selectedDate # Null
  /\ viewMode' = "day"
  /\ selectedDate' = Null
  /\ dvCurrentDate' = Null
  /\ MountedWhen(maxPending)
  /\ lastDrop' = NoDrop
  /\ UNCHANGED <<lastOp, walkVars, drawerVars, queryVars, outcomes, envVars, currentDate, selectedHour, hvCurrentHour, storeVars,
                 inflight, nIssued, nDrops>>

\* App.handleCloseDayView.
CloseDayView(maxPending) ==
  /\ drag = "none"
  /\ viewMode = "day" /\ selectedDate # Null
  /\ viewMode' = "month"
  /\ selectedDate' = Null
  /\ dvCurrentDate' = Null
  /\ MountedWhen(maxPending)
  /\ lastDrop' = NoDrop
  /\ UNCHANGED <<lastOp, walkVars, drawerVars, queryVars, outcomes, envVars, currentDate, selectedHour, hvCurrentHour, storeVars,
                 inflight, nIssued, nDrops>>

handleCloseDayView == CloseDayView(MaxNavPending)

\* ---------------------------------------------------------------- navigation while mutations are pending
MaxPending == 2   \* mutations in flight when the user navigates: those of a drop

\* The clicks of the header and of the cells while mutations are pending.
PendingDateClick == DateClickWhen(MaxPending)
PendingHourClick == HourClickWhen(MaxPending)
PendingCloseHourView == CloseHourView(MaxPending)
PendingCloseDayView == CloseDayView(MaxPending)

\* Notes dropped on quarters, tasks dragged on, and the views opened and
\* closed while the mutations of the drops are in flight.
PendingNext ==
  \/ PendingDateClick
  \/ PendingHourClick
  \/ PendingCloseHourView
  \/ PendingCloseDayView
  \/ handleAddNote
  \/ SettleCreateNote
  \/ SettleCreateTask
  \/ SettleDeleteNote
  \/ SettleUpdateTask
  \/ NoteDragStart
  \/ TaskDragStart
  \/ handleDragOver
  \/ DropOnQuarter
  \/ handleDragEnd
  \/ handleTaskDragEnd

\* The time zone plays no part in which view is shown: one zone.
OneZoneInit == Init /\ tzOffset = 120

PendingSpec == OneZoneInit /\ [][PendingNext]_vars

Next ==
  \/ DateClick
  \/ handlePreviousDay
  \/ handleNextDay
  \/ HourClick
  \/ handlePreviousHour
  \/ handleNextHour
  \/ handleCloseHourView
  \/ handleCloseDayView
  \/ handleAddNote
  \/ SettleCreateNote
  \/ SettleCreateTask
  \/ SettleDeleteNote
  \/ SettleUpdateTask
  \/ NoteDragStart
  \/ TaskDragStart
  \/ ForeignDragEnter
  \/ handleDragOver
  \/ handleDragLeave
  \/ DropOnDayCell
  \/ DropOnHourRow
  \/ DropOnQuarter
  \/ handleDragEnd
  \/ handleTaskDragEnd
  \/ ForeignDragEnd

Spec == Init /\ [][Next]_vars

\* ---------------------------------------------------------------- month paging
\* The days on which the app is opened when the Month view is paged: every day
\* from 2024-12-01 to 2025-03-31, at 12:00 UTC.
MonthOpenTimes ==
  {d * MinutesPerDay + 720 : d \in DaysFromCivil(2024, 12, 1)..DaysFromCivil(2025, 3, 31)}

\* The months the Month view is paged through: 2024-01 to 2026-01.
PagedDays == DaysFromCivil(2024, 1, 1)..DaysFromCivil(2026, 1, 31)

\* date.setMonth(m): the local year, day of month and time of day are kept, m
\* may lie outside 0..11 and a day past the month's end overflows into the
\* next month.
setMonth(t, m) ==
  LET first == DaysFromCivil(getFullYear(t) + (m \div 12), (m % 12) + 1, 1)
  IN  (first + getDate(t) - 1) * MinutesPerDay + LocalMinutes(t) - tzOffset

\* App.handleMonthChange(date).
handleMonthChange(date) ==
  /\ viewMode = "month"
  /\ LocalDay(date) \in PagedDays
  /\ currentDate' = date
  /\ UNCHANGED <<lastOp, walkVars, drawerVars, queryVars, outcomes, envVars, selectedDate, selectedHour, viewMode, dvCurrentDate,
                 hvCurrentHour, dragVars, storeVars, inflight, nIssued, nDrops, lastDrop>>

\* onClick of the previous-month button.
PreviousMonth == handleMonthChange(setMonth(currentDate, getMonth(currentDate) - 1))

\* onClick of the next-month button.
NextMonth == handleMonthChange(setMonth(currentDate, getMonth(currentDate) + 1))

\* The app opened on any of MonthOpenTimes.
NavInit ==
  /\ tzOffset \in TzOffsets
  /\ apiUp = TRUE
  /\ currentDate \in MonthOpenTimes
  /\ selectedDate = Null
  /\ selectedHour = Null
  /\ viewMode = "month"
  /\ dvCurrentDate = Null
  /\ hvCurrentHour = Null
  /\ draggedTask = NoTask
  /\ draggedNote = NoNote
  /\ dropZones = {}
  /\ highlighted = {}
  /\ drag = "none"
  /\ dataTransfer = NoData
  /\ overZone = NoZone
  /\ dropDone = FALSE
  /\ serverNotes = <<>>
  /\ serverTasks = <<>>
  /\ localNotes = <<>>
  /\ localTasks = <<>>
  /\ uuidSeq = 0
  /\ clock = 0
  /\ inflight = <<>>
  /\ nIssued = 0
  /\ nDrops = 0
  /\ lastDrop = NoDrop
  /\ lastOp = NoOp
  /\ FirstOpen
  /\ outcomes = <<>>
  /\ NotesDrawerMounted
  /\ QueriesFetched

\* The navigation of the app: the view handlers and the month buttons.
NavNext ==
  \/ PreviousMonth
  \/ NextMonth
  \/ DateClick
  \/ handlePreviousDay
  \/ handleNextDay
  \/ HourClick
  \/ handlePreviousHour
  \/ handleNextHour
  \/ handleCloseHourView
  \/ handleCloseDayView

NavSpec == NavInit /\ [][NavNext]_vars

\* ---------------------------------------------------------------- store requests
MaxStoreOps == 3  \* requests made to the store over a run

\* The dates of the tasks that are created.
Day1 == IsoDate(<<2025, 1, 29>>)
Day2 == IsoDate(<<2025, 1, 30>>)

\* A note body with every optional field absent.
NoNoteFields ==
  [title |-> UndefStr, description |-> UndefStr, priority |-> UndefStr, completed |-> Undef]

\* The bodies posted to /api/notes: a complete one, one with only a title,
\* an empty title, a blank title, no title.
NoteBodies ==
  {[title |-> <<"W", "r">>, description |-> <<"d">>, priority |-> High, completed |-> 0],
   [NoNoteFields EXCEPT !.title = <<"W", "r">>],
   [NoNoteFields EXCEPT !.title = <<>>],
   [NoNoteFields EXCEPT !.title = <<" ">>],
   NoNoteFields}

\* The bodies patched to /api/notes/:id: {}, { description: null },
\* { title, completed }, { title: null }.
NotePatches ==
  {NoNoteFields,
   [NoNoteFields EXCEPT !.description = NullStr],
   [NoNoteFields EXCEPT !.title = <<"X">>, !.completed = 1],
   [NoNoteFields EXCEPT !.title = NullStr]}

\* The bodies posted to /api/tasks and given to mockTasksApi.createTask: a
\* complete one, one with a start time, two with title and date only, one
\* without title, one without date.
TaskBodies ==
  {[noteId |-> <<"uuid", 0>>, title |-> <<"T">>, description |-> <<"d">>,
    priority |-> High, date |-> Day2, startTime |-> HourTime(10), duration |-> 60,
    completed |-> 0],
   [NoUpdates EXCEPT !.title = <<"T">>, !.date = Day2, !.startTime = HourTime(9)],
   [NoUpdates EXCEPT !.title = <<"T">>, !.date = Day2],
   [NoUpdates EXCEPT !.title = <<"T">>, !.date = Day1],
   [NoUpdates EXCEPT !.date = Day2],
   [NoUpdates EXCEPT !.title = <<"T">>]}

\* The bodies of task updates: {}, { startTime, duration },
\* { description: null, startTime: null }, { title: null }.
TaskPatches ==
  {NoUpdates,
   [NoUpdates EXCEPT !.startTime = HourTime(8), !.duration = 15],
   [NoUpdates EXCEPT !.description = NullStr, !.startTime = NullStr],
   [NoUpdates EXCEPT !.title = NullStr]}

\* req.params.id of a request: an id randomUUID() has handed out, or the next.
RequestIds == {<<"uuid", k>> : k \in 1..(uuidSeq + 1)}

\* The id given to mockTasksApi.updateTask: that of a stored task, or another.
LocalIds == {localTasks[i].id : i \in DOMAIN localTasks} \cup {<<"ts", 0>>}

\* The observation of a request.
Request(op, backing, id, body, status, deleted, before) ==
  [op |-> op, backing |-> backing, id |-> id, body |-> body,
   repeat |-> lastOp.op = op /\ lastOp.id = id,
   status |-> status, deleted |-> deleted, before |-> before]

\* What a store request leaves alone, and the time it takes.
StoreFrame ==
  /\ clock < MaxStoreOps
  /\ clock' = clock + 1
  /\ UNCHANGED <<walkVars, drawerVars, queryVars, outcomes, envVars, appVars, dragVars, inflight, nIssued, nDrops,
                 lastDrop>>

\* app.post("/api/notes").
PostNotes ==
  \E body \in NoteBodies :
    /\ apiUp
    /\ StoreFrame
    /\ IF insertNoteSchemaOk(body)
       THEN /\ serverNotes' = Append(serverNotes,
                 MemCreateNote(ServerUser, body, <<"uuid", uuidSeq + 1>>, clock'))
            /\ uuidSeq' = uuidSeq + 1
       ELSE UNCHANGED <<serverNotes, uuidSeq>>
    /\ lastOp' = Request("createNote", "remote", NoId, body,
                         IF insertNoteSchemaOk(body) THEN 200 ELSE 400, FALSE,
                         <<serverNotes, serverTasks>>)
    /\ UNCHANGED <<serverTasks, localNotes, localTasks>>

\* app.patch("/api/notes/:id").
PatchNote ==
  \E id \in RequestIds, body \in NotePatches :
    LET i == FindIndexById(serverNotes, id) IN
    /\ apiUp
    /\ StoreFrame
    /\ serverNotes' =
         IF insertNoteSchemaPartialOk(body) /\ i # 0
         THEN [serverNotes EXCEPT ![i] = MemUpdateNote(@, body)]
         ELSE serverNotes
    /\ lastOp' = Request("updateNote", "remote", id, body,
                         IF ~insertNoteSchemaPartialOk(body) THEN 400
                         ELSE IF i = 0 THEN 404 ELSE 200, FALSE,
                         <<serverNotes, serverTasks>>)
    /\ UNCHANGED <<serverTasks, localNotes, localTasks, uuidSeq>>

\* app.delete("/api/notes/:id"): MemStorage.deleteNote is Map.delete.
DeleteNote ==
  \E id \in RequestIds :
    LET success == FindIndexById(serverNotes, id) # 0 IN
    /\ apiUp
    /\ StoreFrame
    /\ serverNotes' = IF success THEN FilterOutId(serverNotes, id) ELSE serverNotes
    /\ lastOp' = Request("deleteNote", "remote", id, NoUpdates,
                         IF success THEN 200 ELSE 404, success,
                         <<serverNotes, serverTasks>>)
    /\ UNCHANGED <<serverTasks, localNotes, localTasks, uuidSeq>>

\* app.post("/api/tasks").
PostTasks ==
  \E body \in TaskBodies :
    /\ apiUp
    /\ StoreFrame
    /\ IF insertTaskSchemaOk(body)
       THEN /\ serverTasks' = Append(serverTasks,
                 MemCreateTask(ServerUser, body, <<"uuid", uuidSeq + 1>>, clock'))
            /\ uuidSeq' = uuidSeq + 1
       ELSE UNCHANGED <<serverTasks, uuidSeq>>
    /\ lastOp' = Request("createTask", "remote", NoId, body,
                         IF insertTaskSchemaOk(body) THEN 200 ELSE 400, FALSE,
                         <<serverNotes, serverTasks>>)
    /\ UNCHANGED <<serverNotes, localNotes, localTasks>>

\* app.patch("/api/tasks/:id").
PatchTask ==
  \E id \in RequestIds, body \in TaskPatches :
    LET i == FindIndexById(serverTasks, id) IN
    /\ apiUp
    /\ StoreFrame
    /\ serverTasks' =
         IF insertTaskSchemaPartialOk(body) /\ i # 0
         THEN [serverTasks EXCEPT ![i] = MemUpdateTask(@, body)]
         ELSE serverTasks
    /\ lastOp' = Request("updateTask", "remote", id, body,
                         IF ~insertTaskSchemaPartialOk(body) THEN 400
                         ELSE IF i = 0 THEN 404 ELSE 200, FALSE,
                         <<serverNotes, serverTasks>>)
    /\ UNCHANGED <<serverNotes, localNotes, localTasks, uuidSeq>>

\* app.delete("/api/tasks/:id"): MemStorage.deleteTask is Map.delete.
DeleteTask ==
  \E id \in RequestIds :
    LET success == FindIndexById(serverTasks, id) # 0 IN
    /\ apiUp
    /\ StoreFrame
    /\ serverTasks' = IF success THEN FilterOutId(serverTasks, id) ELSE serverTasks
    /\ lastOp' = Request("deleteTask", "remote", id, NoUpdates,
                         IF success THEN 200 ELSE 404, success,
                         <<serverNotes, serverTasks>>)
    /\ UNCHANGED <<serverNotes, localNotes, localTasks, uuidSeq>>

\* mockTasksApi.createTask(task), the fallback when the request rejects.
LocalCreateTask ==
  \E body \in TaskBodies :
    /\ ~apiUp
    /\ StoreFrame
    /\ localTasks' = Append(localTasks, MockCreateTask(body, clock'))
    /\ lastOp' = Request("createTask", "local", NoId, body, 200, FALSE,
                         <<localNotes, localTasks>>)
    /\ UNCHANGED <<serverNotes, serverTasks, localNotes, uuidSeq>>

\* mockTasksApi.updateTask(id, updates): throws when no task has the id.
LocalUpdateTask ==
  \E id \in LocalIds, body \in TaskPatches :
    LET i == FindIndexById(localTasks, id) IN
    /\ ~apiUp
    /\ StoreFrame
    /\ localTasks' =
         IF i # 0 THEN [localTasks EXCEPT ![i] = MockUpdateTask(@, body, clock')]
         ELSE localTasks
    /\ lastOp' = Request("updateTask", "local", id, body,
                         IF i # 0 THEN 200 ELSE 500, FALSE, <<localNotes, localTasks>>)
    /\ UNCHANGED <<serverNotes, serverTasks, localNotes, uuidSeq>>

\* The requests a client makes to the store.
StoreNext ==
  \/ PostNotes
  \/ PatchNote
  \/ DeleteNote
  \/ PostTasks
  \/ PatchTask
  \/ DeleteTask
  \/ LocalCreateTask
  \/ LocalUpdateTask

StoreSpec == Init /\ [][StoreNext]_vars

\* ---------------------------------------------------------------- client mutations
MaxMutations == 3   \* task mutations the client issues over a run

\* The task data the drop handlers give createTaskMutation: title and date set.
ClientTaskBodies == {b \in TaskBodies : insertTaskSchemaOk(b)}

\* The id of a task mutation: that of a task of either backing, or an unknown one.
ClientIds == RequestIds \cup LocalIds

\* A mockTasksApi call that has read the stored tasks and awaits.
Pending(op, id, body, status) ==
  [op |-> op, id |-> id, body |-> body, status |-> status, read |-> localTasks,
   stored |-> FindIndexById(serverTasks, id) # 0]

\* What a settled mutation reported: status is the response's (0: the request
\* was rejected), ok whether mutationFn resolved, notice the toast shown.
Outcome(op, id, status, stored, fallback, ok, notice, changed) ==
  [op |-> op, id |-> id, status |-> status, stored |-> stored, fallback |-> fallback,
   ok |-> ok, notice |-> notice, changed |-> changed]

\* What a task mutation leaves alone.
ClientFrame ==
  UNCHANGED <<lastOp, walkVars, drawerVars, queryVars, envVars, appVars, dragVars, serverNotes, localNotes,
              nIssued, nDrops, lastDrop>>

\* createTaskMutation.mutationFn up to its first await in the fallback: the
\* POST is handled by the server, or the request rejects and
\* mockTasksApi.createTask reads the stored tasks.
createTaskMutation ==
  \E body \in ClientTaskBodies :
    /\ Len(outcomes) + Len(inflight) < MaxMutations
    /\ IF apiUp
       THEN /\ serverTasks' = Append(serverTasks,
                 MemCreateTask(ServerUser, body, <<"uuid", uuidSeq + 1>>, clock + 1))
            /\ uuidSeq' = uuidSeq + 1
            /\ clock' = clock + 1
            /\ outcomes' = Append(outcomes,
                 Outcome("createTask", <<"uuid", uuidSeq + 1>>, 200, FALSE, FALSE, TRUE,
                         "none", TRUE))
            /\ UNCHANGED inflight
       ELSE /\ inflight' = Append(inflight, Pending("createTask", NoId, body, 0))
            /\ UNCHANGED <<serverTasks, uuidSeq, clock, outcomes>>
    /\ UNCHANGED localTasks
    /\ ClientFrame

\* updateTaskMutation.mutationFn up to its first await in the fallback.  The
\* request is a PUT; apiRequest may or may not throw on a response that is
\* not ok; a response without a JSON body makes res.json() reject.
updateTaskMutation ==
  \E id \in ClientIds, body \in TaskPatches, throws \in BOOLEAN :
    LET si     == FindIndexById(serverTasks, id)
        status == IF ~apiUp THEN 0
                  ELSE IF <<"PUT", "/api/tasks/:id">> \notin Routes THEN 404
                  ELSE IF ~insertTaskSchemaPartialOk(body) THEN 400
                  ELSE IF si = 0 THEN 404 ELSE 200
    IN
    /\ Len(outcomes) + Len(inflight) < MaxMutations
    /\ status = 0 => throws
    /\ status = 200 => ~throws
    /\ serverTasks' = IF status = 200
                      THEN [serverTasks EXCEPT ![si] = MemUpdateTask(@, body)]
                      ELSE serverTasks
    /\ IF throws
       THEN /\ inflight' = Append(inflight, Pending("updateTask", id, body, status))
            /\ UNCHANGED outcomes
       ELSE /\ outcomes' = Append(outcomes,
                 Outcome("updateTask", id, status, si # 0, FALSE, status = 200,
                         IF status = 200 THEN "success" ELSE "none", status = 200))
            /\ UNCHANGED inflight
    /\ UNCHANGED <<localTasks, uuidSeq, clock>>
    /\ ClientFrame

\* deleteTaskMutation.mutationFn up to its first await in the fallback; the
\* response is not read, and onSuccess shows "Task deleted".
deleteTaskMutation ==
  \E id \in ClientIds, throws \in BOOLEAN :
    LET si     == FindIndexById(serverTasks, id)
        status == IF ~apiUp THEN 0 ELSE IF si = 0 THEN 404 ELSE 200
    IN
    /\ Len(outcomes) + Len(inflight) < MaxMutations
    /\ status = 0 => throws
    /\ status = 200 => ~throws
    /\ serverTasks' = IF status = 200 THEN FilterOutId(serverTasks, id) ELSE serverTasks
    /\ IF throws
       THEN /\ inflight' = Append(inflight, Pending("deleteTask", id, NoUpdates, status))
            /\ UNCHANGED outcomes
       ELSE /\ outcomes' = Append(outcomes,
                 Outcome("deleteTask", id, status, si # 0, FALSE, TRUE, "success",
                         status = 200))
            /\ UNCHANGED inflight
    /\ UNCHANGED <<localTasks, uuidSeq, clock>>
    /\ ClientFrame

\* The rest of a mockTasksApi call after `await this.getTasks()`: it changes
\* the tasks it read, writes them all back, and the mutation settles.
MockTasksWrite ==
  \E i \in DOMAIN inflight :
    LET p   == inflight[i]
        li  == FindIndexById(p.read, p.id)
        now == clock + 1
        ok  == p.op = "updateTask" => li # 0
        new == IF p.op = "createTask" THEN Append(p.read, MockCreateTask(p.body, now))
               ELSE IF p.op = "deleteTask" THEN FilterOutId(p.read, p.id)
               ELSE IF li # 0 THEN [p.read EXCEPT ![li] = MockUpdateTask(@, p.body, now)]
               ELSE localTasks
    IN
    /\ clock' = now
    /\ localTasks' = new
    /\ inflight' = RemoveAt(inflight, i)
    /\ outcomes' = Append(outcomes,
         Outcome(p.op, IF p.op = "createTask" THEN new[Len(new)].id ELSE p.id,
                 p.status, p.stored, TRUE, ok,
                 IF ok /\ p.op # "createTask" THEN "success" ELSE "none",
                 new # localTasks))
    /\ UNCHANGED <<serverTasks, uuidSeq>>
    /\ ClientFrame

\* The task mutations of a view and the settling of their fallback calls.
ClientNext ==
  \/ createTaskMutation
  \/ updateTaskMutation
  \/ deleteTaskMutation
  \/ MockTasksWrite

ClientSpec == Init /\ [][ClientNext]_vars

\* ---------------------------------------------------------------- both backings
\* createNoteMutation with the same note on a client whose server is
\* reachable and on one whose server is not: app.post("/api/notes") and
\* mockNotesApi.createNote.
BothCreateNote ==
  \E body \in {b \in NoteBodies : insertNoteSchemaOk(b)} :
    /\ StoreFrame
    /\ serverNotes' = Append(serverNotes,
         MemCreateNote(ServerUser, body, <<"uuid", uuidSeq + 1>>, clock'))
    /\ localNotes' = Append(localNotes, MockCreateNote(body, clock'))
    /\ uuidSeq' = uuidSeq + 1
    /\ UNCHANGED <<lastOp, serverTasks, localTasks>>

\* createTaskMutation with the same task data on both: app.post("/api/tasks")
\* and mockTasksApi.createTask.
BothCreateTask ==
  \E body \in ClientTaskBodies :
    /\ StoreFrame
    /\ serverTasks' = Append(serverTasks,
         MemCreateTask(ServerUser, body, <<"uuid", uuidSeq + 1>>, clock'))
    /\ localTasks' = Append(localTasks, MockCreateTask(body, clock'))
    /\ uuidSeq' = uuidSeq + 1
    /\ UNCHANGED <<lastOp, serverNotes, localNotes>>

\* The same mutations applied to the remote store and to the fallback.
BothNext ==
  \/ BothCreateNote
  \/ BothCreateTask

BothSpec == Init /\ [][BothNext]_vars

\* ---------------------------------------------------------------- notes drawer
MaxDrawerNotes == 2   \* notes the composer submits over a run of the drawer

\* e.clientY of the mouse events, in hundredths of window.innerHeight.
PointerYs == {0, 8, 30, 45, 100}

\* What resizing the drawer leaves alone.
DrawerFrame ==
  UNCHANGED <<lastOp, walkVars, queryVars, outcomes, envVars, appVars, dragVars, storeVars,
              inflight, nIssued, nDrops, lastDrop>>

\* NotesDrawer.handleMouseDown, the onMouseDown of the resize handle.
handleMouseDown ==
  \E clientY \in PointerYs :
    /\ ~isDragging
    /\ isDragging' = TRUE
    /\ dragStartY' = clientY
    /\ dragStartHeight' = drawerHeight
    /\ UNCHANGED drawerHeight
    /\ DrawerFrame

\* NotesDrawer.handleMouseMove, a document listener while isDragging.
handleMouseMove ==
  \E clientY \in PointerYs :
    LET deltaHeight == dragStartY - clientY IN
    /\ isDragging
    /\ drawerHeight' = Lesser(Greater(dragStartHeight + deltaHeight, 10), 60)
    /\ UNCHANGED <<isDragging, dragStartY, dragStartHeight>>
    /\ DrawerFrame

\* NotesDrawer.handleMouseUp, a document listener while isDragging.
handleMouseUp ==
  /\ isDragging
  /\ isDragging' = FALSE
  /\ UNCHANGED <<drawerHeight, dragStartY, dragStartHeight>>
  /\ DrawerFrame

DrawerAddNote == AddNote(MaxDrawerNotes)

\* The drawer: its resize handle and its composer.
DrawerNext ==
  \/ handleMouseDown
  \/ handleMouseMove
  \/ handleMouseUp
  \/ DrawerAddNote
  \/ SettleCreateNote

DrawerSpec == Init /\ [][DrawerNext]_vars

\* ---------------------------------------------------------------- notes and queries
\* mockNotesApi.updateNote on the stored note: { ...notes[index], ...updates }
\* with updates = { completed }.
MockUpdateNote(note, updates) == [note EXCEPT !.completed = updates.completed]

\* What a note mutation of the drawer leaves alone.
NotesFrame ==
  UNCHANGED <<lastOp, walkVars, drawerVars, outcomes, envVars, appVars, dragVars,
              serverTasks, localTasks, uuidSeq, clock, nIssued, nDrops, lastDrop>>

\* NotesDrawer.handleToggleComplete(note) and its updateNoteMutation: PATCH
\* /api/notes/:id, else mockNotesApi.updateNote; onSuccess invalidates the
\* notes query.
handleToggleComplete ==
  \E i \in DOMAIN DrawerNotes :
    LET note    == DrawerNotes[i]
        updates == [NoNoteFields EXCEPT !.completed = IF note.completed # 0 THEN 0 ELSE 1]
        si      == FindIndexById(serverNotes, note.id)
        li      == FindIndexById(localNotes, note.id)
        routed  == apiUp /\ <<"PATCH", "/api/notes/:id">> \in Routes
                     /\ insertNoteSchemaPartialOk(updates) /\ si # 0
    IN
    /\ drag = "none"
    /\ inflight = <<>>
    /\ routed \/ li # 0
    /\ serverNotes' = IF routed THEN [serverNotes EXCEPT ![si] = MemUpdateNote(@, updates)]
                      ELSE serverNotes
    /\ localNotes' = IF routed THEN localNotes
                     ELSE [localNotes EXCEPT ![li] = MockUpdateNote(@, updates)]
    /\ invalidated' = invalidated \cup {"notes"}
    /\ UNCHANGED <<notesData, tasksData, inflight>>
    /\ NotesFrame

\* The delete button of a note item: deleteNoteMutation.mutate(note.id).
handleDeleteNote ==
  \E i \in DOMAIN DrawerNotes :
    /\ drag = "none"
    /\ inflight = <<>>
    /\ inflight' = <<[Mutation("deleteNote", "DELETE", DrawerNotes[i].id, NoBody)
                      EXCEPT !.cur = FALSE]>>
    /\ UNCHANGED <<serverNotes, localNotes, queryVars>>
    /\ NotesFrame

\* The data of the tasks query of the mounted view: MonthView reads all the
\* tasks, DayView and HourView those TasksQuery gives for their date.
ShownTasks ==
  IF viewMode = "month"
  THEN (IF apiUp THEN getTasks(ServerUser, UndefStr) ELSE localTasks)
  ELSE TasksQuery(formatDateString(IF viewMode = "day" THEN dvCurrentDate ELSE selectedDate))

\* A refetch that resolves without replacing the cached data.
QueryRefetchKeepsData ==
  \E key \in invalidated :
    /\ invalidated' = invalidated \ {key}
    /\ UNCHANGED <<notesData, tasksData>>
    /\ UNCHANGED <<lastOp, walkVars, drawerVars, outcomes, envVars, appVars, dragVars,
                   storeVars, inflight, nIssued, nDrops, lastDrop>>

\* An invalidated query is fetched again and its data replaced.
QueryRefetch ==
  \E key \in invalidated :
    /\ invalidated' = invalidated \ {key}
    /\ notesData' = IF key = "notes" THEN DrawerNotes ELSE notesData
    /\ tasksData' = IF key = "tasks" THEN ShownTasks ELSE tasksData
    /\ UNCHANGED <<lastOp, walkVars, drawerVars, outcomes, envVars, appVars, dragVars,
                   storeVars, inflight, nIssued, nDrops, lastDrop>>

\* The drawer's notes: created, completed, deleted, dragged to a Month-view
\* cell; the queries fetched again after each mutation.
NotesNext ==
  \/ handleAddNote
  \/ SettleCreateNote
  \/ handleToggleComplete
  \/ handleDeleteNote
  \/ NoteDragStart
  \/ handleDragOver
  \/ DropOnDayCell
  \/ handleDragEnd
  \/ SettleCreateTask
  \/ SettleDeleteNote
  \/ QueryRefetch

NotesSpec == Init /\ [][NotesNext]_vars

\* ---------------------------------------------------------------- reachability per call
\* Every queryFn and mutationFn tries the API first and falls back to
\* localStorage in its catch block, so the backing is chosen anew by each
\* call.  Between two calls the API becomes reachable or unreachable.
NetworkChange ==
  /\ apiUp' = ~apiUp
  /\ UNCHANGED <<lastOp, walkVars, drawerVars, queryVars, outcomes, tzOffset, appVars, dragVars,
                 storeVars, inflight, nIssued, nDrops, lastDrop>>

\* The drawer's notes and their drops, each call finding the API reachable
\* or not.
FlakyNext ==
  \/ NotesNext
  \/ NetworkChange

FlakySpec == OneZoneInit /\ [][FlakyNext]_vars

\* ---------------------------------------------------------------- ids
MaxCreations == 3   \* notes and tasks created over a run

\* The milliseconds Date.now() advances between two calls that follow each
\* other closely.
Millis == {0, 1}

\* What creating or deleting an entity leaves alone.
IdFrame ==
  UNCHANGED <<lastOp, walkVars, drawerVars, queryVars, outcomes, envVars, appVars, dragVars,
              inflight, nDrops, lastDrop>>

\* createNoteMutation.mutationFn: POST /api/notes (MemStorage.createNote
\* with randomUUID()), else mockNotesApi.createNote with Date.now().
createNoteMutationFn ==
  \E body \in {b \in NoteBodies : insertNoteSchemaOk(b)}, dt \in Millis :
    /\ nIssued < MaxCreations
    /\ nIssued' = nIssued + 1
    /\ clock' = clock + dt
    /\ IF apiUp
       THEN /\ serverNotes' = Append(serverNotes,
                 MemCreateNote(ServerUser, body, <<"uuid", uuidSeq + 1>>, clock'))
            /\ uuidSeq' = uuidSeq + 1
            /\ UNCHANGED localNotes
       ELSE /\ localNotes' = Append(localNotes, MockCreateNote(body, clock'))
            /\ UNCHANGED <<serverNotes, uuidSeq>>
    /\ UNCHANGED <<serverTasks, localTasks>>
    /\ IdFrame

\* createTaskMutation.mutationFn: POST /api/tasks (MemStorage.createTask),
\* else mockTasksApi.createTask with Date.now().
createTaskMutationFn ==
  \E body \in ClientTaskBodies, dt \in Millis :
    /\ nIssued < MaxCreations
    /\ nIssued' = nIssued + 1
    /\ clock' = clock + dt
    /\ IF apiUp
       THEN /\ serverTasks' = Append(serverTasks,
                 MemCreateTask(ServerUser, body, <<"uuid", uuidSeq + 1>>, clock'))
            /\ uuidSeq' = uuidSeq + 1
            /\ UNCHANGED localTasks
       ELSE /\ localTasks' = Append(localTasks, MockCreateTask(body, clock'))
            /\ UNCHANGED <<serverTasks, uuidSeq>>
    /\ UNCHANGED <<serverNotes, localNotes>>
    /\ IdFrame

\* deleteNoteMutation.mutationFn with the id of a listed note: DELETE
\* /api/notes/:id, else mockNotesApi.deleteNote.
deleteNoteMutationFn ==
  \E i \in DOMAIN Notes :
    /\ serverNotes' = IF apiUp THEN FilterOutId(serverNotes, Notes[i].id) ELSE serverNotes
    /\ localNotes' = IF apiUp THEN localNotes ELSE FilterOutId(localNotes, Notes[i].id)
    /\ UNCHANGED <<serverTasks, localTasks, uuidSeq, clock, nIssued>>
    /\ IdFrame

\* deleteTaskMutation.mutationFn with the id of a listed task: DELETE
\* /api/tasks/:id, else mockTasksApi.deleteTask.
deleteTaskMutationFn ==
  \E i \in DOMAIN Tasks :
    /\ serverTasks' = IF apiUp THEN FilterOutId(serverTasks, Tasks[i].id) ELSE serverTasks
    /\ localTasks' = IF apiUp THEN localTasks ELSE FilterOutId(localTasks, Tasks[i].id)
    /\ UNCHANGED <<serverNotes, localNotes, uuidSeq, clock, nIssued>>
    /\ IdFrame

\* Entities created one shortly after the other, and deleted by id.
IdNext ==
  \/ createNoteMutationFn
  \/ createTaskMutationFn
  \/ deleteNoteMutationFn
  \/ deleteTaskMutationFn

IdSpec == Init /\ [][IdNext]_vars

\* ---------------------------------------------------------------- walkthrough
MaxOpens == 3   \* times the App page is mounted over a run

\* walkthroughSteps.length - 1.
LastStep == 4

\* What the walkthrough leaves alone.
WalkFrame ==
  UNCHANGED <<lastOp, drawerVars, queryVars, outcomes, envVars, appVars, dragVars, storeVars,
              inflight, nIssued,
              nDrops, lastDrop>>

\* setLocation("/app"): App mounts, useWalkthrough starts with
\* useState(false) and its mount effect starts the timeout unless
\* localStorage holds timeblock_walkthrough_done.
OpenApp ==
  /\ ~appOpen
  /\ nOpens < MaxOpens
  /\ appOpen' = TRUE
  /\ nOpens' = nOpens + 1
  /\ isWalkthroughActive' = FALSE
  /\ currentStep' = 0
  /\ timers' = IF ~walkthroughDone THEN Append(timers, nOpens + 1) ELSE timers
  /\ UNCHANGED <<walkthroughDone, nAutoLaunches>>
  /\ WalkFrame

\* The location leaves /app: App unmounts and its state is dropped; the
\* effect returns no cleanup, so its timeout stays pending.
CloseApp ==
  /\ appOpen
  /\ appOpen' = FALSE
  /\ isWalkthroughActive' = FALSE
  /\ currentStep' = 0
  /\ UNCHANGED <<walkthroughDone, nOpens, timers, nAutoLaunches>>
  /\ WalkFrame

\* The callback of setTimeout(..., 500): setIsWalkthroughActive(true) of the
\* mount that started it (no effect once that mount is gone).
AutoLaunch ==
  \E i \in DOMAIN timers :
    LET live == appOpen /\ timers[i] = nOpens IN
    /\ timers' = RemoveAt(timers, i)
    /\ isWalkthroughActive' = (live \/ isWalkthroughActive)
    /\ currentStep' = IF live /\ ~isWalkthroughActive THEN 0 ELSE currentStep
    /\ nAutoLaunches' = IF live /\ ~isWalkthroughActive THEN nAutoLaunches + 1
                        ELSE nAutoLaunches
    /\ UNCHANGED <<walkthroughDone, appOpen, nOpens>>
    /\ WalkFrame

\* startWalkthrough, the onClick of the help button.
startWalkthrough ==
  /\ appOpen
  /\ isWalkthroughActive' = TRUE
  /\ currentStep' = IF isWalkthroughActive THEN currentStep ELSE 0
  /\ UNCHANGED <<walkthroughDone, appOpen, nOpens, timers, nAutoLaunches>>
  /\ WalkFrame

\* completeWalkthrough: sets the flag and unmounts Walkthrough.
completeWalkthrough ==
  /\ walkthroughDone' = TRUE
  /\ isWalkthroughActive' = FALSE
  /\ currentStep' = 0

\* A handleNext that advances on the last step as on the others.
handleNextPastLast ==
  /\ appOpen /\ isWalkthroughActive
  /\ currentStep' = currentStep + 1
  /\ currentStep <= LastStep
  /\ UNCHANGED <<walkthroughDone, isWalkthroughActive>>
  /\ UNCHANGED <<appOpen, nOpens, timers, nAutoLaunches>>
  /\ WalkFrame

\* Walkthrough.handleNext.
handleNext ==
  /\ appOpen /\ isWalkthroughActive
  /\ IF currentStep < LastStep
     THEN /\ currentStep' = currentStep + 1
          /\ UNCHANGED <<walkthroughDone, isWalkthroughActive>>
     ELSE completeWalkthrough
  /\ UNCHANGED <<appOpen, nOpens, timers, nAutoLaunches>>
  /\ WalkFrame

\* Walkthrough.handleSkip.
handleSkip ==
  /\ appOpen /\ isWalkthroughActive
  /\ completeWalkthrough
  /\ UNCHANGED <<appOpen, nOpens, timers, nAutoLaunches>>
  /\ WalkFrame

\* Walkthrough.handleBack.
handleBack ==
  /\ appOpen /\ isWalkthroughActive
  /\ currentStep > 0
  /\ currentStep' = currentStep - 1
  /\ UNCHANGED <<walkthroughDone, isWalkthroughActive, appOpen, nOpens, timers,
                 nAutoLaunches>>
  /\ WalkFrame

\* The walkthrough over opens of the App page and returns to it.
WalkthroughNext ==
  \/ OpenApp
  \/ CloseApp
  \/ AutoLaunch
  \/ startWalkthrough
  \/ handleNext
  \/ handleSkip
  \/ handleBack

WalkSpec == Init /\ [][WalkthroughNext]_vars

\* ---------------------------------------------------------------- claims
\* C1: when the mutations of a Note N dropped on the Month-view cell of day D
\* have completed, Tasks holds exactly one Task more than before the drop; the
\* new Task is dated D (the day the cell shows) and has noteId = N.id,
\* startTime = null and N's title and priority; N is gone from Notes, whose
\* count is one lower.
C1_MonthDropFilesTaskOnCellDay ==
  (/\ lastDrop.view = "month" /\ lastDrop.tag = "note"
   /\ lastDrop.pending = 0 /\ lastDrop.clean)
  => LET new == Tasks[Len(Tasks)] IN
     /\ Len(Tasks) = lastDrop.tasksBefore + 1
     /\ new.noteId = lastDrop.note.id
     /\ new.date = LocalDateKey(lastDrop.date)
     /\ new.startTime = NullStr
     /\ new.title = lastDrop.note.title
     /\ new.priority = lastDrop.note.priority
     /\ \A i \in DOMAIN Notes : Notes[i].id # lastDrop.note.id
     /\ Len(Notes) = lastDrop.notesBefore - 1

C4_DropDispatchesOnDragKind ==
  lastDrop.view \in {"day", "hour"}
  => /\ lastDrop.kind = "task"
          => lastDrop.issued = << <<"updateTask", lastDrop.task.id>> >>
     /\ (lastDrop.kind = "note" /\ lastDrop.tag = "note")
          => lastDrop.issued = << <<"createTask", NoId>>, <<"deleteNote", lastDrop.note.id>> >>
     /\ lastDrop.kind = "foreign" => lastDrop.issued = <<>>

\* C4 witness: a Task was dropped on a quarter after an earlier drop.
C4_Witness ==
  /\ lastDrop.view = "hour" /\ lastDrop.kind = "task"
  /\ nDrops = 2
  /\ lastDrop.issued # <<>>

\* C5: once the update of a Task T dropped on Day-view hour row H completes,
\* the stored T has startTime "HH:00" and its id, date, title, priority and
\* noteId are unchanged, whichever backing holds T.
C5_TaskDropReschedulesStoredTask ==
  (/\ lastDrop.view = "day" /\ lastDrop.kind = "task"
   /\ lastDrop.pending = 0 /\ lastDrop.clean)
  => \E i \in DOMAIN Tasks :
       /\ Tasks[i].id = lastDrop.task.id
       /\ Tasks[i].startTime = HourTime(lastDrop.hour)
       /\ Tasks[i].date = lastDrop.task.date
       /\ Tasks[i].title = lastDrop.task.title
       /\ Tasks[i].priority = lastDrop.task.priority
       /\ Tasks[i].noteId = lastDrop.task.noteId

\* C6: the drag session is idle (draggedNote = null) after a drop event alone,
\* whatever the drop did, as it is after drag-end.
C6_SessionIdleAfterDrop ==
  /\ drag = "none" => draggedNote = NoNote
  /\ dropDone => draggedNote = NoNote

\* C7: a drop whose payload is missing or malformed issues no mutation and is
\* reported to the user by an error notice.
C7_UnusablePayloadReported ==
  (lastDrop.view # "none" /\ lastDrop.kind = "foreign"
     /\ lastDrop.tag \in {"none", "malformed"})
  => /\ lastDrop.issued = <<>>
     /\ \E i \in DOMAIN lastDrop.toasts : lastDrop.toasts[i] = "Error"

\* C8: the zone under the pointer is highlighted, a zone that was left is not,
\* and after any drop and after any drag-end no zone is highlighted.
C8_NoHighlightAfterDropOrDragEnd ==
  /\ overZone # NoZone => overZone \in highlighted
  /\ (dropDone \/ drag = "none") => highlighted = {}

C10_HourCloseKeepsDayShown ==
  [][(viewMode = "hour" /\ viewMode' = "day") => dvCurrentDate' = dvCurrentDate]_vars

\* C11: in Month view the next control moves the visible month forward by
\* exactly one calendar month and the previous control back by exactly one,
\* and viewMode stays month, whatever the day of the month of currentDate.
C11_MonthPagingMovesOneMonth ==
  [][/\ viewMode = "month" /\ viewMode' = "month"
     /\ currentDate' > currentDate
          => getFullYear(currentDate') * 12 + getMonth(currentDate')
               = getFullYear(currentDate) * 12 + getMonth(currentDate) + 1
     /\ currentDate' < currentDate
          => getFullYear(currentDate') * 12 + getMonth(currentDate')
               = getFullYear(currentDate) * 12 + getMonth(currentDate) - 1
    ]_currentDate

\* C12: currentDate (the visible month) changes only in a step that stays in
\* Month view; every Month->Day, Day->Hour, Hour->Day and Day->Month step
\* leaves it unchanged, also when the clicked cell is a day of an adjacent
\* month.
C12_ViewChangeKeepsVisibleMonth ==
  [][viewMode' # viewMode => currentDate' = currentDate]_<<viewMode, currentDate>>

\* C12 witness: the Day view of a padding day of the previous month is open
\* and the visible month is still the one that was shown.
C12_Witness ==
  /\ viewMode = "day"
  /\ selectedDate # Null
  /\ getMonth(selectedDate) # getMonth(currentDate)

\* C13: listTasks(userId, date) returns exactly that user's tasks whose date
\* is the given date (all of them when no date is given), ordered by date
\* ascending, within a date tasks with a startTime before tasks without one,
\* and tasks with a startTime ascending by startTime.
C13_ListTasksFilteredAndSorted ==
  \A userId \in {ServerUser, LocalUser}, date \in {UndefStr, Day1, Day2} :
    LET r    == getTasks(userId, date)
        want == {t \in Range(serverTasks) :
                   t.userId = userId /\ (date # UndefStr => t.date = date)}
    IN  /\ Range(r) = want
        /\ Len(r) = Cardinality(want)
        /\ \A i, j \in DOMAIN r :
             i < j =>
               /\ localeCompare(r[i].date, r[j].date) <= 0
               /\ r[i].date = r[j].date =>
                    /\ r[j].startTime # NullStr => r[i].startTime # NullStr
                    /\ (r[i].startTime # NullStr /\ r[j].startTime # NullStr)
                         => localeCompare(r[i].startTime, r[j].startTime) <= 0

\* C13 witness: three tasks of one date are stored in an order that is not the
\* listed one, with and without a startTime.
C13_Witness ==
  /\ Len(getTasks(ServerUser, Day2)) = 3
  /\ getTasks(ServerUser, Day2) # serverTasks
  /\ \E i, j \in DOMAIN serverTasks :
       i < j /\ serverTasks[i].startTime = NullStr /\ serverTasks[j].startTime # NullStr

\* C14: a createNote whose title is missing, empty or only whitespace is
\* rejected as invalid and adds no Note, at the store's create endpoint too.
C14_BlankTitleRejected ==
  (/\ lastOp.op = "createNote"
   /\ lastOp.body.title = UndefStr \/ Trim(lastOp.body.title) = <<>>)
  => /\ lastOp.status = 400
     /\ <<serverNotes, serverTasks>> = lastOp.before

\* C15: createNote gives the Note an id no stored Note has and stores
\* priority "medium" / completed 0 when the input leaves them out; every
\* stored Note has priority in {low, medium, high} and completed in {0, 1}.
C15_CreateNoteDefaults ==
  /\ (lastOp.op = "createNote" /\ lastOp.status = 200)
     => LET new == serverNotes[Len(serverNotes)] IN
        /\ serverNotes = Append(lastOp.before[1], new)
        /\ \A i \in DOMAIN lastOp.before[1] : lastOp.before[1][i].id # new.id
        /\ lastOp.body.priority = UndefStr => new.priority = Medium
        /\ lastOp.body.completed = Undef => new.completed = 0
  /\ \A i \in DOMAIN serverNotes :
       /\ serverNotes[i].priority \in {Low, Medium, High}
       /\ serverNotes[i].completed \in {0, 1}

\* C16: an update that succeeds changes exactly the fields its body provides
\* (a null description clears it) and every other field of the entity, and
\* every other entity, keeps its value; with an empty body the entity is
\* unchanged, in the remote store and in the local fallback.
C16_UpdateMergesProvidedFields ==
  /\ (lastOp.op = "updateNote" /\ lastOp.status = 200)
     => LET before == lastOp.before[1]
            u      == lastOp.body
            i      == CHOOSE k \in DOMAIN before : before[k].id = lastOp.id
        IN  serverNotes =
              [before EXCEPT ![i] =
                 [@ EXCEPT
                    !.title = IF u.title # UndefStr THEN u.title ELSE @,
                    !.description = IF u.description # UndefStr THEN u.description ELSE @,
                    !.priority = IF u.priority # UndefStr THEN u.priority ELSE @,
                    !.completed = IF u.completed # Undef THEN u.completed ELSE @]]
  /\ (lastOp.op = "updateTask" /\ lastOp.status = 200)
     => LET before == lastOp.before[2]
            u      == lastOp.body
            i      == CHOOSE k \in DOMAIN before : before[k].id = lastOp.id
        IN  (IF lastOp.backing = "remote" THEN serverTasks ELSE localTasks) =
              [before EXCEPT ![i] =
                 [@ EXCEPT
                    !.noteId = IF u.noteId # UndefId THEN u.noteId ELSE @,
                    !.title = IF u.title # UndefStr THEN u.title ELSE @,
                    !.description = IF u.description # UndefStr THEN u.description ELSE @,
                    !.priority = IF u.priority # UndefStr THEN u.priority ELSE @,
                    !.date = IF u.date # UndefStr THEN u.date ELSE @,
                    !.startTime = IF u.startTime # UndefStr THEN u.startTime ELSE @,
                    !.duration = IF u.duration # Undef THEN u.duration ELSE @,
                    !.completed = IF u.completed # Undef THEN u.completed ELSE @]]

\* C17: an update of an id that is not in the store is answered NotFound
\* (404 at the endpoint, for a body the endpoint accepts) and leaves every
\* Note and Task as it was; it creates nothing.
C17_UpdateUnknownIdNotFound ==
  (/\ lastOp.op \in {"updateNote", "updateTask"}
   /\ LET before == IF lastOp.op = "updateNote" THEN lastOp.before[1] ELSE lastOp.before[2]
      IN  \A i \in DOMAIN before : before[i].id # lastOp.id)
  => /\ lastOp.status # 200
     /\ (lastOp.backing = "remote" /\ lastOp.status # 400) => lastOp.status = 404
     /\ lastOp.backing = "remote" => <<serverNotes, serverTasks>> = lastOp.before
     /\ lastOp.backing = "local" => <<localNotes, localTasks>> = lastOp.before

\* C17 witness: a PATCH of an unknown task id was answered 404 while tasks
\* are stored.
C17_Witness ==
  /\ lastOp.op = "updateTask" /\ lastOp.backing = "remote"
  /\ lastOp.status = 404
  /\ serverTasks # <<>>

\* C18: a delete returns true exactly when an entity with the id existed;
\* afterwards the id is absent and every other Note and Task is unchanged; a
\* second delete of the id returns false and changes nothing.
C18_DeleteReturnsWhetherExisted ==
  lastOp.op \in {"deleteNote", "deleteTask"}
  => LET k      == IF lastOp.op = "deleteNote" THEN 1 ELSE 2
         before == lastOp.before[k]
         now    == <<serverNotes, serverTasks>>
         had    == \E i \in DOMAIN before : before[i].id = lastOp.id
     IN  /\ lastOp.deleted = had
         /\ lastOp.status = (IF had THEN 200 ELSE 404)
         /\ now[k] = SelectSeq(before, LAMBDA e : e.id # lastOp.id)
         /\ now[3 - k] = lastOp.before[3 - k]
         /\ (lastOp.repeat /\ ~had) => now = lastOp.before

\* C18 witness: the only Note was deleted, and its delete was requested again.
C18_Witness ==
  /\ lastOp.op = "deleteNote" /\ lastOp.repeat /\ ~lastOp.deleted
  /\ lastOp.id = <<"uuid", 1>>
  /\ uuidSeq = 1 /\ clock = 3
  /\ serverNotes = <<>> /\ serverTasks = <<>>

\* C19: createTask is rejected as invalid and adds no Task when title or date
\* is missing, and succeeds (one Task more) whatever else is absent, in the
\* remote store and in the local fallback.
C19_CreateTaskRequiresTitleAndDate ==
  lastOp.op = "createTask"
  => LET now == IF lastOp.backing = "remote" THEN <<serverNotes, serverTasks>>
                ELSE <<localNotes, localTasks>>
     IN  IF lastOp.body.title = UndefStr \/ lastOp.body.date = UndefStr
         THEN lastOp.status # 200 /\ now = lastOp.before
         ELSE /\ lastOp.status = 200
              /\ Len(now[2]) = Len(lastOp.before[2]) + 1
              /\ now[1] = lastOp.before[1]

\* C20: listNotes(userId) returns exactly the Notes of that user, the most
\* recently created first, after any creates, updates and deletes.
C20_ListNotesNewestFirst ==
  \A userId \in {ServerUser, LocalUser} :
    LET r    == getNotes(userId)
        want == {n \in Range(serverNotes) : n.userId = userId}
    IN  /\ Range(r) = want
        /\ Len(r) = Cardinality(want)
        /\ \A i, j \in DOMAIN r : i < j => r[i].createdAt >= r[j].createdAt

\* C20 witness: two Notes are listed after an update or a delete succeeded.
C20_Witness ==
  /\ Len(getNotes(ServerUser)) = 2
  /\ lastOp.op \in {"updateNote", "deleteNote"}
  /\ lastOp.status = 200

\* C21: on a client that starts without the completion flag, the walkthrough
\* is auto-launched at most once over all opens of the App page, closes and
\* returns: once it has been auto-launched, no later open auto-launches it.
C21_AutoLaunchOnce == nAutoLaunches <= 1

\* C22: once the completion flag is set, no timeout activates the
\* walkthrough (also not one started before the flag was set); it becomes
\* active again only by startWalkthrough, which activates it with and without
\* the flag.
C22_OnlyHelpAfterCompletion ==
  [][/\ walkthroughDone => nAutoLaunches' = nAutoLaunches
     /\ (walkthroughDone /\ ~isWalkthroughActive /\ isWalkthroughActive')
          => (appOpen /\ appOpen' /\ timers' = timers)]_vars

\* C23: for every month, getDaysInMonth returns exactly 42 dates, the first is
\* a Monday, each entry is one calendar day after the previous one (at local
\* midnight), and every day of the month is in the grid.
C23_MonthGrid ==
  LET days  == getDaysInMonth(currentDate)
      y     == getFullYear(currentDate)
      m     == getMonth(currentDate) + 1
      first == DaysFromCivil(y, m, 1)
      next  == IF m = 12 THEN DaysFromCivil(y + 1, 1, 1) ELSE DaysFromCivil(y, m + 1, 1)
  IN  /\ DOMAIN days = 1..42
      /\ getDay(days[1]) = 1
      /\ \A i \in 1..42 : LocalMinutes(days[i]) = 0
      /\ \A i \in 1..41 : LocalDay(days[i + 1]) = LocalDay(days[i]) + 1
      /\ \A d \in first..(next - 1) : \E i \in 1..42 : LocalDay(days[i]) = d

\* The Month view paged back to February 2024, whose 29th is in the grid, and
\* the day of a grid cell opened.
C23_Witness ==
  /\ viewMode = "day"
  /\ getFullYear(currentDate) = 2024 /\ getMonth(currentDate) = 1
  /\ \E i \in 1..MaxCell : selectedDate = getDaysInMonth(currentDate)[i]
  /\ \E i \in 1..42 :
       LocalDay(getDaysInMonth(currentDate)[i]) = DaysFromCivil(2024, 2, 29)

\* C24: the key formatDateString gives a date is the YYYY-MM-DD of the date's
\* local calendar fields, for the date the app was opened at, for every cell
\* of the month grid (local midnight) and for the days the views show.
C24_DateKeyIsLocalDay ==
  /\ formatDateString(currentDate) = LocalDateKey(currentDate)
  /\ LET days == getDaysInMonth(currentDate)
     IN  \A i \in 1..42 : formatDateString(days[i]) = LocalDateKey(days[i])
  /\ selectedDate # Null => formatDateString(selectedDate) = LocalDateKey(selectedDate)
  /\ dvCurrentDate # Null => formatDateString(dvCurrentDate) = LocalDateKey(dvCurrentDate)

C26_FallbackOnlyWhenUnreachable ==
  \A i \in DOMAIN outcomes :
    LET o == outcomes[i] IN
    /\ o.fallback => o.status = 0
    /\ (o.op \in {"updateTask", "deleteTask"} /\ o.status = 404 /\ ~o.stored)
         => (~o.changed /\ o.notice = "failure")

\* C27: the collections hold the effect of every mutation that reported
\* success: a created task is stored in the backing that created it unless a
\* delete of its id succeeded, and a task whose delete succeeded on a backing
\* is not stored there.
C27_NoLostUpdate ==
  \A i \in DOMAIN outcomes :
    LET o       == outcomes[i]
        backing == IF o.fallback THEN localTasks ELSE serverTasks
        deleted == \E j \in DOMAIN outcomes :
                     outcomes[j].op = "deleteTask" /\ outcomes[j].id = o.id /\ outcomes[j].ok
    IN
    /\ (o.op = "createTask" /\ o.ok /\ ~deleted) => FindIndexById(backing, o.id) # 0
    /\ (o.op = "deleteTask" /\ o.ok /\ o.changed) => FindIndexById(backing, o.id) = 0

\* C28: after the same creations on both backings, the notes the fallback
\* lists (mockNotesApi.getNotes) and the notes GET /api/notes lists are the
\* same entities in the same order with the same field values, and so are
\* the tasks (ids and user ids, which each backing assigns, left aside).
C28_BackingsListTheSame ==
  LET NoteFields(n) == <<n.title, n.description, n.priority, n.completed>>
      TaskFields(t) == <<t.title, t.description, t.priority, t.date, t.startTime,
                         t.duration, t.completed, t.noteId>>
      remoteNotes == getNotes(ServerUser)
      remoteTasks == getTasks(ServerUser, UndefStr)
  IN  /\ [i \in DOMAIN remoteNotes |-> NoteFields(remoteNotes[i])]
           = [i \in DOMAIN localNotes |-> NoteFields(localNotes[i])]
      /\ [i \in DOMAIN remoteTasks |-> TaskFields(remoteTasks[i])]
           = [i \in DOMAIN localTasks |-> TaskFields(localTasks[i])]

\* C29: every Task the Day view shows (hour rows and unscheduled tray) and
\* every Task in a quarter slot of the Hour view has date = the key of the
\* date that view displays, with the tasks served by the remote API and by
\* the local fallback.
C29_ShownTasksAreOfShownDate ==
  /\ viewMode = "day"
       => \A t \in DayViewTasks : t.date = formatDateString(dvCurrentDate)
  /\ viewMode = "hour"
       => \A t \in HourViewTasks : t.date = formatDateString(selectedDate)

\* C30: while the Hour view is open, the date it displays and schedules
\* drops on (App.selectedDate) is the date the Day view displayed when the
\* hour row was clicked, and the hour in the header title (App.selectedHour)
\* is the hour the Hour view shows, whatever was paged before and since.
C30_HourViewOfDayShown ==
  viewMode = "hour" => (selectedDate = dvCurrentDate /\ selectedHour = hvCurrentHour)

\* C39: the drawer's height stays within 10 and 60 hundredths of the window
\* height under every sequence of handle drags and note creations.  A note
\* creation that succeeds raises a height below 40 by 15, to 50 at most, and
\* leaves any other height as it is: it never lowers the height.
C39_DrawerHeightBounds ==
  [][/\ drawerHeight \in 10..60 /\ drawerHeight' \in 10..60
     /\ Len(Notes') > Len(Notes) =>
          /\ drawerHeight' >= drawerHeight
          /\ drawerHeight >= 40 => drawerHeight' = drawerHeight
          /\ drawerHeight < 40 =>
               /\ drawerHeight' - drawerHeight \in 1..15
               /\ drawerHeight' = drawerHeight + 15 \/ drawerHeight' = 50]_vars

\* A note has been created in a drawer that a drag had brought below 40 and
\* within 15 of the cap, and the creation raised it to the cap.
C39_Witness ==
  /\ Len(Notes) > 0
  /\ drawerHeight = 50
  /\ inflight = <<>>
  /\ ~isDragging

C32_ScheduledTasksDisplayedOnce ==
  /\ viewMode = "day" =>
       LET tasks == TasksQuery(formatDateString(dvCurrentDate)) IN
       \A i \in DOMAIN tasks :
         (tasks[i].date = formatDateString(dvCurrentDate) /\ Truthy(tasks[i].startTime))
           => Cardinality({h \in getHoursArray : i \in getTasksForHour(h)}) = 1
  /\ viewMode = "hour" =>
       \A t \in Range(Tasks) :
         (/\ t.date = formatDateString(selectedDate)
          /\ Truthy(t.startTime)
          /\ StartHour(t.startTime) = hvCurrentHour)
           => Cardinality({q \in 0..3 : getTaskForQuarter(q) = t}) = 1

\* C33: at most one Task occupies a given (date, startTime) pair, for
\* every sequence of Note drops and Task reschedules.
C33_OneTaskPerSlot ==
  \A i, j \in DOMAIN Tasks :
    (/\ i # j
     /\ Truthy(Tasks[i].startTime)
     /\ Tasks[i].date = Tasks[j].date)
      => Tasks[i].startTime # Tasks[j].startTime

\* The entities of a collection have ids distinct from one another.
DistinctIds(s) == \A i, j \in DOMAIN s : i # j => s[i].id # s[j].id

\* C35: within the notes and within the tasks of a backing every entity has
\* an id of its own, also when entities are created through the local
\* fallback in quick succession, and so a delete by id removes at most one
\* entity.
C35_IdsDistinct ==
  [][/\ DistinctIds(serverNotes') /\ DistinctIds(localNotes')
     /\ DistinctIds(serverTasks') /\ DistinctIds(localTasks')
     /\ Len(Notes) - Len(Notes') <= 1
     /\ Len(Tasks) - Len(Tasks') <= 1]_vars

\* C36: every mutation that succeeds invalidates the queries of the
\* collections it affects and they are fetched again: once no mutation is
\* in flight and no query awaits its refetch, the note list and the task
\* list shown are the contents of the backing that serves the client.
C36_ShownListsMatchBacking ==
  (inflight = <<>> /\ invalidated = {}) =>
    (notesData = DrawerNotes /\ tasksData = ShownTasks)

\* A Note drop has settled and both queries have been fetched again: the
\* task list shown holds the new Task.
C36_Witness ==
  /\ inflight = <<>> /\ invalidated = {}
  /\ tasksData # <<>>
  /\ lastDrop.tag = "note"

C40_NoTerminalView ==
  (drag = "none" /\ Len(inflight) <= MaxPending) =>
    /\ viewMode \in {"month", "day", "hour"}
    /\ viewMode = "hour" =>
         /\ ENABLED (PendingCloseHourView /\ viewMode' = "day")
         /\ ~ENABLED (PendingCloseHourView /\ viewMode' # "day")
    /\ viewMode = "day" =>
         /\ ENABLED (PendingCloseDayView /\ viewMode' = "month")
         /\ ~ENABLED (PendingCloseDayView /\ viewMode' # "month")
    /\ viewMode = "month" => ENABLED PendingDateClick

\* The Hour view is open with the pointer free while the mutations of a
\* drop are still in flight.
C40_Witness ==
  /\ viewMode = "hour" /\ drag = "none"
  /\ inflight # <<>>
  /\ nDrops > 0

\* C38: the walkthrough's step index stays within its five steps.  Next
\* advances it by one, except on the last step, where it completes the
\* walkthrough; Back moves it back by one and is without effect on the first
\* step; Skip completes from any step; completing sets the completion flag
\* and deactivates the walkthrough.
C38_StepIndexInRange ==
  [][/\ currentStep' \in 0..LastStep
     /\ handleNext =>
          IF currentStep = LastStep
          THEN walkthroughDone' /\ ~isWalkthroughActive'
          ELSE /\ currentStep' = currentStep + 1
               /\ isWalkthroughActive' /\ walkthroughDone' = walkthroughDone
     /\ handleBack =>
          /\ currentStep' = currentStep - 1
          /\ isWalkthroughActive' /\ walkthroughDone' = walkthroughDone
     /\ (appOpen /\ isWalkthroughActive /\ currentStep = 0) => ~ENABLED handleBack
     /\ (appOpen /\ isWalkthroughActive) => ENABLED handleSkip
     /\ handleSkip => walkthroughDone' /\ ~isWalkthroughActive'
     /\ (~walkthroughDone /\ walkthroughDone') => ~isWalkthroughActive']_vars

\* The walkthrough shows its last step, reached by Next from the first.
C38_Witness ==
  appOpen /\ isWalkthroughActive /\ currentStep = LastStep /\ ~walkthroughDone

\* C34: a created note or task is in every later completed refresh of its
\* list until it is deleted, whatever the reachability of the API at each
\* call.  Once every mutation has settled and every invalidated query has
\* been fetched again, each stored note is among the drawer's notes and each
\* stored task among the month's tasks.
C34_CreatedStaysListed ==
  (inflight = <<>> /\ invalidated = {}) =>
    /\ \A n \in Range(serverNotes) \cup Range(localNotes) :
         \E d \in Range(notesData) : d.id = n.id
    /\ \A t \in Range(serverTasks) \cup Range(localTasks) :
         \E d \in Range(tasksData) : d.id = t.id

====
